---- MODULE Spec2Model ----
(***************************************************************************)
(* State-machine model of the scout watch/review subsystem:                *)
(*   - the advisory watch lock            (src/src/watch/lock.ts)          *)
(*   - the watch store and its helpers    (src/src/watch/remote.ts)        *)
(*   - the one-shot change detector       (src/unnamed/part_014)           *)
(*   - the session builders               (src/src/watch/session.ts,       *)
(*                                         src/unnamed/part_030)           *)
(*   - the review launcher                (src/src/review/launcher.ts)     *)
(* Each subsystem has its own specification over the shared variables.     *)
(***************************************************************************)
EXTENDS Integers, Sequences, FiniteSets, TLC

\* ------------------------------------------------------------------ bounds
NumProcs == 2
Proc == 1..NumProcs
NoProc == 0
\* bound on the processes that run watch commands
NumWatchers == 1
WatchProc == 1..NumWatchers
\* bound on the processes that run the review command
NumReviewers == 1
ReviewProc == 1..NumReviewers

\* ---------------------------------------------------------------- universe
\* repository full names ("owner/name")
RepoNames == {"o/a", "o/b"}
\* component kinds tracked in the model
Kinds == {"cli", "skill"}
\* commit ids: <<first seven characters, rest>>; two ids may share a prefix
Shas == {<<"a", 1>>, <<"a", 2>>, <<"b", 1>>}
\* tracked path lists given to watch add
PathLists == {<<>>, <<"src/cli">>}
\* the commit id of a repo that has no snapshot (oldSha === undefined)
NoSha == <<"", 0>>

\* --------------------------------------------------------------- variables
VARIABLES
  \* advisory lock (watch/lock)
  lockHolder,   \* process whose lockfile.lock() succeeded and is not released
  lpc,          \* per process: position inside withWatchLock
  attempts,     \* per process: retries of lockfile.lock() used so far
  fnOutcome,    \* per process: how fn() ended ("none" while not ended)
  \* watch store, V2 tables (watch/db SCHEMA_SQL)
  repos,        \* rows [id, full_name, url]
  tracked,      \* rows [id, repo_id, target_kind, paths, enabled]
  snapshots,    \* rows [id, repo_id, head_sha]
  changes,      \* rows [id, repo_id, from_sha, to_sha, target_kind, drift_flag]
  sessions,     \* rows [id, change_id, session_path, status]
  \* filesystem under <cache>/runs/reviews and the git worktree registry
  fs,           \* session directory path -> set of entries present in it
  worktrees,    \* session directory paths whose repo/ is a registered worktree
  today,        \* the current date (a day number)
  \* runWatchOnce, per process
  run,          \* [pc, rows, idx, sinceLast, autoReview, oldSha, newSha, session, log, error,
                \*  reviewOptions]
  \* watch store, legacy tables (watch/db SCHEMA_SQL)
  trackedRepos,   \* rows [id, repo, baseline_sha, last_sha]
  trackedPaths,   \* rows [id, repo_id, kind, path]
  reviewSessions, \* rows [id, repo_id, session_path, old_sha, new_sha, target_kind,
                  \*       status, exit_code]
  \* launchReview, per process
  launch,         \* [pc, sessionPath, sessionId, outcome, result]
  \* a chunkDiff call: its arguments and the ChunkResult
  chunk,          \* [pc, patch, maxTokens, maxFilesPerChunk, result]
  \* discover: the api cache files, the wall clock (hours), the run
  apiCache,       \* cache key -> [timestamp, ttlHours, data]
  clock,
  disc,           \* [pc, ttlHours, idx, page, queriesExecuted, items, lookup, calls,
                  \*  sleeps, lastResponse, allCandidates]
  \* a call of a pure function of the program: its arguments and result
  call,
  \* a clone command: [pc, toClone, idx, manifest, failed, saved]
  cloneRun

lockVars == <<lockHolder, lpc, attempts, fnOutcome>>
storeVars == <<repos, tracked, snapshots, changes, sessions>>
fsVars == <<fs, worktrees, today>>
watchVars == <<run>>
legacyVars == <<trackedRepos, trackedPaths, reviewSessions>>
reviewVars == <<launch>>

chunkVars == <<chunk>>
discVars == <<apiCache, clock, disc>>
callVars == <<call>>
cloneVars == <<cloneRun>>
vars == <<lockVars, storeVars, fsVars, watchVars, legacyVars, reviewVars, chunkVars,
          discVars, callVars, cloneVars>>

nonLock == <<storeVars, fsVars, watchVars, legacyVars, reviewVars, chunkVars,
             discVars, callVars, cloneVars>>
nonWatch == <<lockVars, legacyVars, reviewVars, chunkVars, discVars, callVars, cloneVars>>
nonReview == <<lockVars, storeVars, watchVars, chunkVars, discVars, callVars, cloneVars>>

\* ------------------------------------------------- state after construction
LockInit ==
  /\ lockHolder = NoProc
  /\ lpc = [p \in Proc |-> "idle"]
  /\ attempts = [p \in Proc |-> 0]
  /\ fnOutcome = [p \in Proc |-> "none"]

\* getDb on a fresh cache: SCHEMA_SQL creates empty tables
StoreInit ==
  /\ repos = {}
  /\ tracked = {}
  /\ snapshots = {}
  /\ changes = {}
  /\ sessions = {}

\* no session directory and no worktree exists yet
FsInit ==
  /\ fs = <<>>
  /\ worktrees = {}
  /\ today = 1

\* a path that names no session directory
NoPath == [repo |-> "", date |-> 0, kind |-> "", range |-> <<"", "">>]

\* no session has been built for the entry being processed
NoSession == [sessionPath |-> NoPath, driftFlag |-> FALSE]

\* launchReview has not been called for the entry being processed
NoReviewOptions == [interactive |-> TRUE, timeout |-> "none"]

IdleRun ==
  [pc |-> "idle", rows |-> <<>>, idx |-> 0, sinceLast |-> FALSE, autoReview |-> FALSE,
   oldSha |-> NoSha, newSha |-> NoSha, session |-> NoSession, log |-> <<>>,
   error |-> "none", reviewOptions |-> NoReviewOptions]

WatchInit ==
  /\ run = [p \in WatchProc |-> IdleRun]

\* getDb on a fresh cache: the legacy tables are empty too
LegacyInit ==
  /\ trackedRepos = {}
  /\ trackedPaths = {}
  /\ reviewSessions = {}

\* exit_code IS NULL
NoExitCode == -1
\* getReviewSessionByPath returned null
NoSessionId == 0

\* the LaunchResult of a call that has not returned
NoResult == [exitCode |-> NoExitCode, success |-> FALSE, error |-> "none"]

\* the reviewer subprocess has not ended
NoOutcome == [kind |-> "none", code |-> NoExitCode]

IdleLaunch == [pc |-> "idle", sessionPath |-> NoPath, sessionId |-> NoSessionId,
               outcome |-> NoOutcome, result |-> NoResult]

ReviewInit ==
  /\ launch = [p \in ReviewProc |-> IdleLaunch]

\* no chunkDiff call has been made
NoChunkResult == [chunks |-> <<>>, totalTokens |-> 0, wasChunked |-> FALSE]
IdleChunk == [pc |-> "idle", patch |-> <<>>, maxTokens |-> 0, maxFilesPerChunk |-> 0,
              result |-> NoChunkResult]
ChunkInit == chunk = IdleChunk

\* the api cache directory is empty and no discover run has started
NoItems == <<>>
IdleDisc == [pc |-> "idle", ttlHours |-> 0, idx |-> 0, page |-> 0, queriesExecuted |-> 0,
             items |-> NoItems, lookup |-> "none", calls |-> 0, sleeps |-> <<>>,
             lastResponse |-> "none", allCandidates |-> <<>>]
DiscInit == apiCache = <<>> /\ clock = 0 /\ disc = IdleDisc

\* no call of a pure function of the program is in progress
IdleCall == [pc |-> "idle"]
CallInit == call = IdleCall

\* no clone command is running: createManifest has not been called
NoManifest == [requested |-> 0, cloned |-> 0, entries |-> <<>>]
IdleClone == [pc |-> "idle", toClone |-> <<>>, idx |-> 0, manifest |-> NoManifest,
              failed |-> {}, saved |-> NoManifest]
CloneInit == cloneRun = IdleClone

Init ==
  /\ LockInit /\ StoreInit /\ FsInit /\ WatchInit /\ LegacyInit /\ ReviewInit
  /\ ChunkInit /\ DiscInit /\ CallInit /\ CloneInit

\* ------------------------------------------------------------ advisory lock
\* LOCK_OPTIONS.retries.retries
LockRetries == 5

\* LOCK_OPTIONS.retries: factor, minTimeout and maxTimeout (ms)
LockFactor == 2
LockMinTimeout == 100
LockMaxTimeout == 1000

\* randomize: true multiplies each timeout by a factor between 1 and 2,
\* given here in tenths
RandomTenths == {10, 15, 20}

\* the wait before retry number attempt + 1:
\* min(round(random * minTimeout * factor ^ attempt), maxTimeout)
RetryTimeout(attempt, tenths) ==
  LET t == (tenths * LockMinTimeout * LockFactor ^ attempt) \div 10
  IN IF t < LockMaxTimeout THEN t ELSE LockMaxTimeout

LockFreeAlways(holder) == TRUE

\* lockfile.lock finds no live lock on the file
LockFree(holder) == holder = NoProc

\* lockfile.check(): true while a (non-stale) lock exists
isWatchLocked == lockHolder # NoProc

\* withWatchLock(fn) is called: acquireWatchLock starts
CallWithWatchLock(p) ==
  /\ lpc[p] = "idle"
  /\ lpc' = [lpc EXCEPT ![p] = "acquiring"]
  /\ attempts' = [attempts EXCEPT ![p] = 0]
  /\ fnOutcome' = [fnOutcome EXCEPT ![p] = "none"]
  /\ UNCHANGED lockHolder
  /\ UNCHANGED nonLock

\* acquireWatchLock: one attempt of lockfile.lock(lockPath, LOCK_OPTIONS).
\* Free: taken.  Held by another: retried after a backoff while retries are
\* left, then the call rejects (ELOCKED) and fn is never run.
AcquireWatchLock(p) ==
  /\ lpc[p] = "acquiring"
  /\ IF LockFree(lockHolder)
       THEN /\ lockHolder' = p
            /\ lpc' = [lpc EXCEPT ![p] = "inFn"]
            /\ UNCHANGED attempts
       ELSE IF attempts[p] < LockRetries
         THEN /\ attempts' = [attempts EXCEPT ![p] = @ + 1]
              /\ UNCHANGED <<lockHolder, lpc>>
         ELSE /\ lpc' = [lpc EXCEPT ![p] = "lockBusy"]
              /\ UNCHANGED <<lockHolder, attempts>>
  /\ UNCHANGED fnOutcome
  /\ UNCHANGED nonLock

\* try { return await fn() }: fn settles, by returning or by throwing
FnSettles(p) ==
  /\ lpc[p] = "inFn"
  /\ \E o \in {"return", "throw"} : fnOutcome' = [fnOutcome EXCEPT ![p] = o]
  /\ lpc' = [lpc EXCEPT ![p] = "finally"]
  /\ UNCHANGED <<lockHolder, attempts>>
  /\ UNCHANGED nonLock

\* a withWatchLock without its finally block: released only on return
LockAfterExitNoFinally(p, outcome) == IF outcome = "return" THEN NoProc ELSE p

\* finally { await lock.release() }: the holder after withWatchLock exits
LockAfterExit(p, outcome) == NoProc

WithLockExit(p) ==
  /\ lpc[p] = "finally"
  /\ lockHolder' = LockAfterExit(p, fnOutcome[p])
  /\ lpc' = [lpc EXCEPT ![p] = IF fnOutcome[p] = "return" THEN "returned" ELSE "thrown"]
  /\ UNCHANGED <<attempts, fnOutcome>>
  /\ UNCHANGED nonLock

\* the caller goes on (and may call withWatchLock again)
LockCallerContinues(p) ==
  /\ lpc[p] \in {"returned", "thrown", "lockBusy"}
  /\ lpc' = [lpc EXCEPT ![p] = "idle"]
  /\ UNCHANGED <<lockHolder, attempts, fnOutcome>>
  /\ UNCHANGED nonLock

LockNext ==
  \E p \in Proc :
    \/ CallWithWatchLock(p)
    \/ AcquireWatchLock(p)
    \/ FnSettles(p)
    \/ WithLockExit(p)
    \/ LockCallerContinues(p)

SpecLock == Init /\ [][LockNext]_vars

\* the retry timers of lockfile.lock fire: a pending attempt is made
SpecLockFair == SpecLock /\ \A p \in Proc : WF_vars(AcquireWatchLock(p))

\* -------------------------------------------------------------- watch store
MaxRowid(rows) ==
  IF rows = {} THEN 0
  ELSE CHOOSE m \in {r.id : r \in rows} : \A r \in rows : r.id <= m

\* INTEGER PRIMARY KEY without AUTOINCREMENT: one more than the largest rowid
NextRowid(rows) == MaxRowid(rows) + 1

\* normalizeGitUrl for an "owner/repo" input
NormalizeGitUrl(name) == <<"https://github.com/", name, ".git">>

\* insertRepoV2 on a connection whose last_insert_rowid is lastRowid.
\* The DO UPDATE branch inserts nothing, so lastInsertRowid keeps its value.
InsertRepoV2(rs, fullName, url, lastRowid) ==
  IF \E r \in rs : r.full_name = fullName
    THEN LET old == CHOOSE r \in rs : r.full_name = fullName
         IN [rows |-> (rs \ {old}) \cup {[old EXCEPT !.url = url]},
             lastInsertRowid |-> lastRowid,
             id |-> IF lastRowid > 0 THEN lastRowid ELSE old.id]
    ELSE LET new == NextRowid(rs)
         IN [rows |-> rs \cup {[id |-> new, full_name |-> fullName, url |-> url]},
             lastInsertRowid |-> new,
             id |-> new]

UpsertTrackedV2AlwaysInserts(ts, repoId, kind, paths, enabled, lastRowid) ==
  LET new == NextRowid(ts)
  IN [rows |-> ts \cup {[id |-> new, repo_id |-> repoId, target_kind |-> kind,
                         paths |-> paths, enabled |-> enabled]},
      lastInsertRowid |-> new,
      id |-> new]

\* upsertTrackedV2 on a connection whose last_insert_rowid is lastRowid
UpsertTrackedV2(ts, repoId, kind, paths, enabled, lastRowid) ==
  IF \E t \in ts : t.repo_id = repoId /\ t.target_kind = kind
    THEN LET old == CHOOSE t \in ts : t.repo_id = repoId /\ t.target_kind = kind
         IN [rows |-> (ts \ {old}) \cup {[old EXCEPT !.paths = paths, !.enabled = enabled]},
             lastInsertRowid |-> lastRowid,
             id |-> IF lastRowid > 0 THEN lastRowid ELSE old.id]
    ELSE LET new == NextRowid(ts)
         IN [rows |-> ts \cup {[id |-> new, repo_id |-> repoId, target_kind |-> kind,
                                paths |-> paths, enabled |-> enabled]},
             lastInsertRowid |-> new,
             id |-> new]

LatestSnapshotOldestFirst(snaps, repoId) ==
  LET rs == {x \in snaps : x.repo_id = repoId}
  IN IF rs = {} THEN NoSha
     ELSE (CHOOSE x \in rs : \A y \in rs : x.id <= y.id).head_sha

\* SELECT head_sha FROM snapshots WHERE repo_id = ? ORDER BY id DESC LIMIT 1
LatestSnapshot(snaps, repoId) ==
  LET rs == {x \in snaps : x.repo_id = repoId}
  IN IF rs = {} THEN NoSha
     ELSE (CHOOSE x \in rs : \A y \in rs : y.id <= x.id).head_sha

InsertSnapshot(snaps, repoId, sha) ==
  snaps \cup {[id |-> NextRowid(snaps), repo_id |-> repoId, head_sha |-> sha]}

InsertChangeSwapped(chs, repoId, from, to, kind, drift) ==
  chs \cup {[id |-> NextRowid(chs), repo_id |-> repoId, from_sha |-> to,
             to_sha |-> from, target_kind |-> kind, drift_flag |-> drift]}

\* INSERT INTO changes (repo_id, from_sha, to_sha, target_kind, ..., drift_flag)
InsertChange(chs, repoId, from, to, kind, drift) ==
  chs \cup {[id |-> NextRowid(chs), repo_id |-> repoId, from_sha |-> from,
             to_sha |-> to, target_kind |-> kind, drift_flag |-> drift]}

\* INSERT INTO sessions (change_id, session_path, status) VALUES (?, ?, 'pending')
InsertSession(ss, changeId, path) ==
  ss \cup {[id |-> NextRowid(ss), change_id |-> changeId, session_path |-> path,
            status |-> "pending"]}

RECURSIVE RowsById(_)
\* rows of a table in rowid order
RowsById(rows) ==
  IF rows = {} THEN <<>>
  ELSE LET last == CHOOSE r \in rows : \A q \in rows : q.id <= r.id
       IN Append(RowsById(rows \ {last}), last)

\* SELECT ... FROM tracked t JOIN repos r ON r.id = t.repo_id WHERE t.enabled = 1
EnabledTrackedRows(ts, rs) ==
  LET joined == {[id |-> t.id, repo_id |-> t.repo_id, target_kind |-> t.target_kind,
                  paths |-> t.paths,
                  full_name |-> (CHOOSE r \in rs : r.id = t.repo_id).full_name] :
                 t \in {u \in ts : u.enabled /\ \E r \in rs : r.id = u.repo_id}}
  IN RowsById(joined)

\* bound on the rows of the tracked table
MaxTracked == 2

\* watch add: insertRepoV2 then upsertTrackedV2 on a fresh connection; the
\* command holds no lock
RunWatchAdd(p, name, kind, paths) ==
  /\ run[p].pc = "idle"
  /\ LET r1 == InsertRepoV2(repos, name, NormalizeGitUrl(name), 0)
         r2 == UpsertTrackedV2(tracked, r1.id, kind, paths, TRUE, r1.lastInsertRowid)
     IN /\ Cardinality(r2.rows) <= MaxTracked
        /\ repos' = r1.rows
        /\ tracked' = r2.rows
  /\ UNCHANGED <<snapshots, changes, sessions, fsVars, watchVars, nonWatch>>

\* ------------------------------------------------- session directories (fs)
\* <cache>/runs/reviews/<safe-repo>/<date>/<kind>/<from7>_<to7>
SessionPath(repo, kind, oldSha, newSha, day) ==
  [repo |-> repo, date |-> day, kind |-> kind, range |-> <<oldSha[1], newSha[1]>>]

\* mkdir -p of a directory with the given entries in it
MkDir(f, path, entries) ==
  [q \in DOMAIN f \cup {path} |->
     IF q = path THEN (IF path \in DOMAIN f THEN f[path] ELSE {}) \cup entries
     ELSE f[q]]

RmDirKeepsDirectory(f, path) == f

\* rm(path, {recursive: true, force: true})
RmDir(f, path) == [q \in DOMAIN f \ {path} |-> f[q]]

\* what the environment does to one session build: the first step that
\* fails (if it is reached), the two diffs, the drift detector, the chunker
FailPoints == {"none", "clone", "worktree", "diff", "overallDiff", "removeWorktree",
               "drift", "writeDiff", "writeContext", "insert"}
DiffCases == {[scopedEmpty |-> FALSE, overallEmpty |-> FALSE],
              [scopedEmpty |-> TRUE, overallEmpty |-> FALSE],
              [scopedEmpty |-> TRUE, overallEmpty |-> TRUE]}
BuildEnvs == [failAt : FailPoints, diff : DiffCases, drift : BOOLEAN, chunked : BOOLEAN]

DiffEntriesNoDriftFile(chunked, hasDrift) ==
  IF chunked THEN {"chunks", "CHUNK_INDEX.md"} ELSE {"diff.patch"}

\* the files written for the diff: chunks/ + CHUNK_INDEX.md, or diff.patch,
\* and DRIFT.md when drift was found
DiffEntries(chunked, hasDrift) ==
  (IF chunked THEN {"chunks", "CHUNK_INDEX.md"} ELSE {"diff.patch"})
    \cup (IF hasDrift THEN {"DRIFT.md"} ELSE {})

\* the steps createWatchSession and generateSession share, from the mkdir
\* of the session directory to the last file written: the state they leave
\* and what they return or throw
BuildSessionDir(f, wt, path, scoped, env) ==
  LET Throw(fx, wtx, err, made) ==
        [fs |-> fx, worktrees |-> wtx, threw |-> TRUE, error |-> err,
         sessionPath |-> path, driftFlag |-> FALSE, worktreeCreated |-> made,
         diffUsed |-> "none"]
      f1 == MkDir(f, path, {"OUTPUT"})
      f2 == MkDir(f1, path, {"repo"})
      wt2 == wt \cup {path}
      firstEmpty == IF scoped THEN env.diff.scopedEmpty ELSE env.diff.overallEmpty
      scopedDrift == firstEmpty /\ scoped /\ ~env.diff.overallEmpty
      hasDrift == env.drift \/ scopedDrift
      f3 == MkDir(f2, path, DiffEntries(env.chunked, hasDrift))
      f4 == MkDir(f3, path, {"review_context.json", "REVIEW_INSTRUCTIONS.md"})
  IN IF env.failAt = "worktree" \/ "repo" \in f1[path] \/ path \in wt
       THEN Throw(RmDir(f1, path), wt, "worktree", FALSE)
     ELSE IF env.failAt = "diff" THEN Throw(f2, wt2, "diff", TRUE)
     ELSE IF firstEmpty /\ scoped /\ env.failAt = "overallDiff"
       THEN Throw(f2, wt2, "overallDiff", TRUE)
     ELSE IF firstEmpty /\ ~scopedDrift
       THEN IF env.failAt = "removeWorktree"
              THEN Throw(f2, wt2, "removeWorktree", TRUE)
              ELSE Throw(RmDir(f2, path), wt2 \ {path}, "NoChangesInScope", TRUE)
     ELSE IF env.failAt = "drift" THEN Throw(f2, wt2, "drift", TRUE)
     ELSE IF env.failAt = "writeDiff" THEN Throw(f2, wt2, "writeDiff", TRUE)
     ELSE IF env.failAt = "writeContext" THEN Throw(f3, wt2, "writeContext", TRUE)
     ELSE [fs |-> f4, worktrees |-> wt2, threw |-> FALSE, error |-> "none",
           sessionPath |-> path, driftFlag |-> hasDrift, worktreeCreated |-> TRUE,
           diffUsed |-> IF scoped /\ ~scopedDrift THEN "scoped" ELSE "overall"]

\* createWatchSession: the state it leaves and what it returns or throws.
\* input = [repoFullName, oldSha, newSha, targetKind, trackedPaths]
CreateWatchSession(f, wt, day, input, env) ==
  LET path == SessionPath(input.repoFullName, input.targetKind, input.oldSha,
                          input.newSha, day)
  IN IF env.failAt = "clone"
       THEN [fs |-> f, worktrees |-> wt, threw |-> TRUE, error |-> "clone",
             sessionPath |-> path, driftFlag |-> FALSE, worktreeCreated |-> FALSE,
             diffUsed |-> "none"]
       ELSE BuildSessionDir(f, wt, path, input.trackedPaths # <<>>, env)

\* ---------------------------------------------------------- runWatchOnce
\* bounds on the rows of the snapshots and changes tables when a run starts
MaxSnapshots == 2
MaxChanges == 2

\* the commit ids the remotes of the tracked repos point at
RemoteHeads == {x \in Shas : x[2] = 1}

\* what fetchHead can do: resolve to a commit id, or throw
FetchOutcomes ==
  {[threw |-> TRUE, sha |-> NoSha]} \cup {[threw |-> FALSE, sha |-> x] : x \in RemoteHeads}

\* what the environment does to the session builds started by run_once
WatchBuildEnvs ==
  {e \in BuildEnvs : e.failAt \in {"none", "worktree", "diff"} /\ ~e.chunked /\ ~e.drift}

\* where a store statement can throw inside the three inserts of one change
StoreFailPoints == {"none", "change", "session", "snapshot"}

EntryBranchAlwaysFetch(oldSha, sinceLast) == "fetch"

EntryBranchNoSeed(oldSha, sinceLast) ==
  IF oldSha = NoSha /\ sinceLast THEN "continue" ELSE "fetch"

\* the branch taken for an entry once its latest snapshot has been read
EntryBranch(oldSha, sinceLast) ==
  IF oldSha = NoSha
    THEN (IF sinceLast THEN "continue" ELSE "fetchSeed")
    ELSE "fetch"

\* insertChange, insertSession, insertSnapshot in statement order; a statement
\* that throws leaves the rows written before it (no transaction wraps them)
RecordChange(chs, ss, snaps, repoId, oldSha, newSha, kind, result, failAt) ==
  LET chs2 == InsertChange(chs, repoId, oldSha, newSha, kind, result.driftFlag)
      changeId == MaxRowid(chs2)
      ss2 == InsertSession(ss, changeId, result.sessionPath)
      snaps2 == InsertSnapshot(snaps, repoId, newSha)
  IN CASE failAt = "change"   -> [changes |-> chs, sessions |-> ss, snapshots |-> snaps, threw |-> TRUE]
       [] failAt = "session"  -> [changes |-> chs2, sessions |-> ss, snapshots |-> snaps, threw |-> TRUE]
       [] failAt = "snapshot" -> [changes |-> chs2, sessions |-> ss2, snapshots |-> snaps, threw |-> TRUE]
       [] OTHER               -> [changes |-> chs2, sessions |-> ss2, snapshots |-> snaps2, threw |-> FALSE]

AfterStoreAlwaysReview(autoReview) == "review"

\* if (autoReview && deps.onSessionCreated !== undefined)
AfterStore(autoReview) == IF autoReview THEN "review" ELSE "loop"

CurrentRow(p) == run[p].rows[run[p].idx]

\* runWatchRunOnce calls runWatchOnce: getDb, the flags, the tracked rows query
RunOnceBegin(p, sinceLast, autoReview) ==
  /\ run[p].pc = "idle"
  /\ Cardinality(snapshots) < MaxSnapshots
  /\ Cardinality(changes) < MaxChanges
  /\ run' = [run EXCEPT ![p] = [IdleRun EXCEPT !.pc = "loop",
                                   !.rows = EnabledTrackedRows(tracked, repos),
                                   !.idx = 1,
                                   !.sinceLast = sinceLast,
                                   !.autoReview = autoReview]]
  /\ UNCHANGED <<storeVars, fsVars, nonWatch>>

\* for (const tracked of trackedRows): the loop head and getLatestSnapshot
RunOnceNextEntry(p) ==
  /\ run[p].pc = "loop"
  /\ IF run[p].idx > Len(run[p].rows)
       THEN run' = [run EXCEPT ![p].pc = "done"]
       ELSE LET old == LatestSnapshot(snapshots, CurrentRow(p).repo_id)
                br == EntryBranch(old, run[p].sinceLast)
            IN run' = [run EXCEPT ![p].oldSha = old,
                                  ![p].newSha = NoSha,
                                  ![p].session = NoSession,
                                  ![p].reviewOptions = NoReviewOptions,
                                  ![p].log = <<>>,
                                  ![p].pc = IF br = "continue" THEN "loop" ELSE br,
                                  ![p].idx = IF br = "continue" THEN @ + 1 ELSE @]
  /\ UNCHANGED <<storeVars, fsVars, nonWatch>>

\* seeding: fetchHead, then insertSnapshot, then continue
RunOnceSeed(p) ==
  /\ run[p].pc = "fetchSeed"
  /\ \E out \in FetchOutcomes, dbThrows \in BOOLEAN :
       IF out.threw
         THEN /\ run' = [run EXCEPT ![p].pc = "thrown", ![p].error = "fetchHead",
                                    ![p].log = Append(@, "fetchHead")]
              /\ UNCHANGED snapshots
         ELSE IF dbThrows
           THEN /\ run' = [run EXCEPT ![p].pc = "thrown", ![p].newSha = out.sha,
                                      ![p].error = "store",
                                      ![p].log = Append(@, "fetchHead")]
                /\ UNCHANGED snapshots
           ELSE /\ snapshots' = InsertSnapshot(snapshots, CurrentRow(p).repo_id, out.sha)
                              /\ run' = [run EXCEPT ![p].pc = "loop", ![p].idx = @ + 1,
                                      ![p].newSha = out.sha,
                                      ![p].log = Append(@, "fetchHead")]
  /\ UNCHANGED <<repos, tracked, changes, sessions, fsVars, nonWatch>>

HeadUnchangedNever(newSha, oldSha) == FALSE

\* if (newSha === oldSha) continue
HeadUnchanged(newSha, oldSha) == newSha = oldSha

\* change detection: fetchHead and the comparison with the latest snapshot
RunOnceFetch(p) ==
  /\ run[p].pc = "fetch"
  /\ \E out \in FetchOutcomes :
       IF out.threw
         THEN run' = [run EXCEPT ![p].pc = "thrown", ![p].error = "fetchHead",
                                 ![p].log = Append(@, "fetchHead")]
         ELSE IF HeadUnchanged(out.sha, run[p].oldSha)
           THEN run' = [run EXCEPT ![p].pc = "loop", ![p].idx = @ + 1, ![p].newSha = out.sha,
                                   ![p].log = Append(@, "fetchHead")]
           ELSE run' = [run EXCEPT ![p].pc = "createSession", ![p].newSha = out.sha,
                                   ![p].log = Append(@, "fetchHead")]
  /\ UNCHANGED <<storeVars, fsVars, nonWatch>>

\* deps.createSession, which the command binds to createWatchSession
RunOnceCreateSession(p) ==
  /\ run[p].pc = "createSession"
  /\ \E env \in WatchBuildEnvs :
       LET res == CreateWatchSession(fs, worktrees, today,
                    [repoFullName |-> CurrentRow(p).full_name,
                     oldSha |-> run[p].oldSha, newSha |-> run[p].newSha,
                     targetKind |-> CurrentRow(p).target_kind,
                     trackedPaths |-> CurrentRow(p).paths], env)
       IN /\ fs' = res.fs
          /\ worktrees' = res.worktrees
          /\ run' = [run EXCEPT ![p].log = Append(@, "createSession"),
                                ![p].pc = IF res.threw THEN "thrown" ELSE "store",
                                ![p].error = res.error,
                                ![p].session = IF res.threw THEN NoSession
                                               ELSE [sessionPath |-> res.sessionPath,
                                                     driftFlag |-> res.driftFlag]]
  /\ UNCHANGED <<today, storeVars, nonWatch>>

\* insertChange, insertSession, insertSnapshot
RunOnceStore(p) ==
  /\ run[p].pc = "store"
  /\ \E failAt \in StoreFailPoints :
       LET res == RecordChange(changes, sessions, snapshots, CurrentRow(p).repo_id,
                               run[p].oldSha, run[p].newSha, CurrentRow(p).target_kind,
                               run[p].session, failAt)
           next == AfterStore(run[p].autoReview)
       IN /\ changes' = res.changes
          /\ sessions' = res.sessions
          /\ snapshots' = res.snapshots
          /\ run' = [run EXCEPT ![p].pc = IF res.threw THEN "thrown" ELSE next,
                                ![p].error = IF res.threw THEN "store" ELSE "none",
                                ![p].idx = IF ~res.threw /\ next = "loop" THEN @ + 1 ELSE @]
  /\ UNCHANGED <<repos, tracked, fsVars, nonWatch>>


\* ------------------------------------------- legacy store: track and fetch
\* bounds on the rows of tracked_repos and review_sessions
MaxTrackedRepos == 1
MaxReviewSessions == 2

\* target_kind IS NULL / targetKind undefined
NoKind == "null"

\* the tracked paths extractTrackedPaths can yield for a repo
LegacyPathSets == {{}, {[kind |-> "cli", path |-> "src/cli"]}}

\* SELECT * FROM tracked_repos WHERE repo = ?
GetTrackedRepoByName(trs, repo) == {t \in trs : t.repo = repo}

RECURSIVE InsertTrackedPaths(_, _, _)
\* insertTrackedPaths: one row per input
InsertTrackedPaths(tps, repoId, paths) ==
  IF paths = {} THEN tps
  ELSE LET x == CHOOSE y \in paths : TRUE
       IN InsertTrackedPaths(
            tps \cup {[id |-> NextRowid(tps), repo_id |-> repoId, kind |-> x.kind,
                       path |-> x.path]},
            repoId, paths \ {x})

\* trackRepo: an already tracked repo is left alone; a local checkout whose
\* HEAD cannot be read is skipped; otherwise the repo and its paths are stored
TrackRepo(name, headReadable, baseline, paths) ==
  /\ IF GetTrackedRepoByName(trackedRepos, name) # {} \/ ~headReadable
       THEN UNCHANGED <<trackedRepos, trackedPaths>>
       ELSE LET id == NextRowid(trackedRepos)
            IN /\ Cardinality(trackedRepos) < MaxTrackedRepos
               /\ trackedRepos' = trackedRepos \cup
                    {[id |-> id, repo |-> name, baseline_sha |-> baseline,
                      last_sha |-> NoSha]}
               /\ trackedPaths' = InsertTrackedPaths(trackedPaths, id, paths)
  /\ UNCHANGED <<reviewSessions, fsVars, reviewVars, nonReview>>

\* UPDATE tracked_repos SET last_sha = ? WHERE id = ?
UpdateTrackedRepoSha(trs, id, sha) ==
  {IF t.id = id THEN [t EXCEPT !.last_sha = sha] ELSE t : t \in trs}

\* fetchRepo: the resolved head is stored as last_sha; when both rev-parse
\* attempts fail nothing is stored
FetchRepo(id, out) ==
  /\ \E t \in trackedRepos : t.id = id
  /\ trackedRepos' = IF out.threw THEN trackedRepos
                     ELSE UpdateTrackedRepoSha(trackedRepos, id, out.sha)
  /\ UNCHANGED <<trackedPaths, reviewSessions, fsVars, reviewVars, nonReview>>

\* ----------------------------------------------- session command (legacy)
\* SELECT * FROM review_sessions WHERE repo_id = ? AND old_sha = ? AND
\* new_sha = ? AND target_kind IS ? ORDER BY created_at DESC LIMIT 1
GetExistingReviewSession(rs, repoId, oldSha, newSha, kind) ==
  LET m == {r \in rs : /\ r.repo_id = repoId
                       /\ r.old_sha = oldSha
                       /\ r.new_sha = newSha
                       /\ r.target_kind = kind}
  IN IF m = {} THEN {} ELSE {CHOOSE r \in m : \A q \in m : q.id <= r.id}

\* INSERT INTO review_sessions (...): status defaults to 'pending'
InsertReviewSession(rs, repoId, path, oldSha, newSha, kind) ==
  rs \cup {[id |-> NextRowid(rs), repo_id |-> repoId, session_path |-> path,
            old_sha |-> oldSha, new_sha |-> newSha, target_kind |-> kind,
            status |-> "pending", exit_code |-> NoExitCode]}

\* what the environment does to the builds of the session command
SessionBuildEnvs ==
  {e \in BuildEnvs : e.failAt \in {"none", "diff", "insert"} /\ ~e.drift /\ ~e.chunked}

\* the --kind values given to the session command (NoKind: flag absent)
SessionKinds == {"cli", NoKind}

\* generateSession: the state it leaves and what it returns or throws
GenerateSession(trs, tps, rs, f, wt, day, repo, targetKind, env) ==
  LET Stop(err) == [fs |-> f, worktrees |-> wt, reviewSessions |-> rs, threw |-> TRUE,
                    error |-> err, sessionPath |-> NoPath, isNew |-> FALSE]
      found == GetTrackedRepoByName(trs, repo)
      trackedRepo == CHOOSE t \in found : TRUE
      oldSha == trackedRepo.baseline_sha
      newSha == IF trackedRepo.last_sha = NoSha THEN trackedRepo.baseline_sha ELSE trackedRepo.last_sha
      existing == GetExistingReviewSession(rs, trackedRepo.id, oldSha, newSha, targetKind)
      paths == {x \in tps : x.repo_id = trackedRepo.id}
      relevantPaths == IF targetKind # NoKind THEN {x \in paths : x.kind = targetKind}
                       ELSE paths
      path == SessionPath(repo, IF targetKind = NoKind THEN "all" ELSE targetKind,
                          oldSha, newSha, day)
      built == BuildSessionDir(f, wt, path, relevantPaths # {}, env)
  IN IF found = {} THEN Stop("notTracked")
     ELSE IF oldSha = newSha THEN Stop("noChanges")
     ELSE IF existing # {}
       THEN [fs |-> f, worktrees |-> wt, reviewSessions |-> rs, threw |-> FALSE,
             error |-> "none",
             sessionPath |-> (CHOOSE r \in existing : TRUE).session_path,
             isNew |-> FALSE]
     ELSE IF built.threw
       THEN [fs |-> built.fs, worktrees |-> built.worktrees, reviewSessions |-> rs,
             threw |-> TRUE, error |-> built.error, sessionPath |-> path, isNew |-> FALSE]
     ELSE IF env.failAt = "insert"
       THEN [fs |-> built.fs, worktrees |-> built.worktrees, reviewSessions |-> rs,
             threw |-> TRUE, error |-> "insert", sessionPath |-> path, isNew |-> FALSE]
     ELSE [fs |-> built.fs, worktrees |-> built.worktrees,
           reviewSessions |-> InsertReviewSession(rs, trackedRepo.id, path, oldSha, newSha,
                                                  targetKind),
           threw |-> FALSE, error |-> "none", sessionPath |-> path, isNew |-> TRUE]

\* scout session <repo> [--kind k]: generateSession inside withWatchLock
RunSession(repo, targetKind, env) ==
  /\ ~isWatchLocked
  /\ LET res == GenerateSession(trackedRepos, trackedPaths, reviewSessions, fs,
                                worktrees, today, repo, targetKind, env)
     IN /\ Cardinality(res.reviewSessions) <= MaxReviewSessions
        /\ fs' = res.fs
        /\ worktrees' = res.worktrees
        /\ reviewSessions' = res.reviewSessions
  /\ UNCHANGED <<today, trackedRepos, trackedPaths, reviewVars, nonReview>>

\* ---------------------------------------------------------- review launcher
ValidateSessionNoDiffCheck(entries) ==
  IF "REVIEW_INSTRUCTIONS.md" \notin entries THEN "missing REVIEW_INSTRUCTIONS.md"
  ELSE IF "review_context.json" \notin entries THEN "missing review_context.json"
  ELSE IF "repo" \notin entries THEN "missing repo"
  ELSE IF "OUTPUT" \notin entries THEN "missing OUTPUT"
  ELSE "valid"

\* validateSession: the first required entry that is missing, or "valid"
ValidateSession(entries) ==
  IF "REVIEW_INSTRUCTIONS.md" \notin entries THEN "missing REVIEW_INSTRUCTIONS.md"
  ELSE IF "review_context.json" \notin entries THEN "missing review_context.json"
  ELSE IF "repo" \notin entries THEN "missing repo"
  ELSE IF "OUTPUT" \notin entries THEN "missing OUTPUT"
  ELSE IF "diff.patch" \notin entries /\ "chunks" \notin entries
    THEN "missing diff.patch or chunks"
  ELSE "valid"

\* SELECT * FROM review_sessions WHERE session_path = ? (first row), as an id
GetReviewSessionByPath(rs, path) ==
  LET m == {r \in rs : r.session_path = path}
  IN IF m = {} THEN NoSessionId
     ELSE (CHOOSE r \in m : \A q \in m : r.id <= q.id).id

\* UPDATE review_sessions SET status = 'running' WHERE id = ?
MarkReviewSessionRunning(rs, id) ==
  {IF r.id = id THEN [r EXCEPT !.status = "running"] ELSE r : r \in rs}

\* UPDATE review_sessions SET status = ?, exit_code = ? WHERE id = ?
MarkReviewSessionComplete(rs, id, status, exitCode) ==
  {IF r.id = id THEN [r EXCEPT !.status = status, !.exit_code = exitCode] ELSE r :
     r \in rs}

\* exit codes of the reviewer subprocess
ExitCodes == {0, 1}

\* how the reviewer subprocess can end: it exits with a code, it is killed
\* when the timeout expires, it is killed by a signal, or it cannot be spawned
ExecaOutcomes ==
  {[kind |-> "exit", code |-> c] : c \in ExitCodes}
    \cup {[kind |-> k, code |-> NoExitCode] : k \in {"timeout", "signal", "spawnError"}}

\* execa(..., {reject: false}): the promise resolves with the result when the
\* subprocess exits, times out or is killed; only a spawn that fails at once
\* can reject, and whether it does depends on the execa release
ExecaRejects(outcome, earlyReject) == outcome.kind = "spawnError" /\ earlyReject

CompletionStatusAlwaysSuccess(exitCode) == "success"

\* success ? 'success' : 'failure' with success = (exitCode === 0)
CompletionStatus(exitCode) == IF exitCode = 0 THEN "success" ELSE "failure"

\* exitCode ?? 1 of an execa result or error
ExitCodeOrOne(outcome) == IF outcome.kind = "exit" THEN outcome.code ELSE 1

\* the try block of launchReview after execa resolved
LaunchResolved(outcome) ==
  LET exitCode == ExitCodeOrOne(outcome)
  IN [status |-> CompletionStatus(exitCode), stored |-> exitCode,
      result |-> [exitCode |-> exitCode, success |-> exitCode = 0,
                  error |-> IF exitCode = 0 THEN "none" ELSE "exited"]]

\* the catch block of launchReview
LaunchRejected(outcome) ==
  LET exitCode == ExitCodeOrOne(outcome)
  IN [status |-> "failure", stored |-> exitCode,
      result |-> IF outcome.kind = "timeout"
                   THEN [exitCode |-> 124, success |-> FALSE, error |-> "timedOut"]
                 ELSE IF outcome.kind = "signal"
                   THEN [exitCode |-> 137, success |-> FALSE, error |-> "terminated"]
                 ELSE [exitCode |-> exitCode, success |-> FALSE, error |-> "message"]]

\* session paths a review command can be given
KnownPaths == DOMAIN fs \cup {r.session_path : r \in reviewSessions} \cup {NoPath}

\* launchReview up to the start of the subprocess: validateSession,
\* isClaudeAvailable, getReviewSessionByPath, markReviewSessionRunning
LaunchStart(p, path, claudeAvailable) ==
  /\ launch[p].pc = "idle"
  /\ LET entries == IF path \in DOMAIN fs THEN fs[path] ELSE {}
         validation == ValidateSession(entries)
         id == GetReviewSessionByPath(reviewSessions, path)
         Return(err) == [launch EXCEPT ![p] =
                           [IdleLaunch EXCEPT !.pc = "returned", !.sessionPath = path,
                              !.result = [exitCode |-> 1, success |-> FALSE,
                                          error |-> err]]]
     IN IF validation # "valid"
          THEN launch' = Return(validation) /\ UNCHANGED reviewSessions
        ELSE IF ~claudeAvailable
          THEN launch' = Return("claude CLI not found") /\ UNCHANGED reviewSessions
        ELSE /\ launch' = [launch EXCEPT ![p] =
                             [IdleLaunch EXCEPT !.pc = "running", !.sessionPath = path,
                                                !.sessionId = id]]
             /\ reviewSessions' = IF id = NoSessionId THEN reviewSessions
                                  ELSE MarkReviewSessionRunning(reviewSessions, id)
  /\ UNCHANGED <<trackedRepos, trackedPaths, fsVars, nonReview>>

\* launchReview from the end of the subprocess to its return
LaunchExit(p, outcome, earlyReject) ==
  /\ launch[p].pc = "running"
  /\ LET id == launch[p].sessionId
         res == IF ExecaRejects(outcome, earlyReject) THEN LaunchRejected(outcome)
                ELSE LaunchResolved(outcome)
     IN /\ reviewSessions' = IF id = NoSessionId THEN reviewSessions
                             ELSE MarkReviewSessionComplete(reviewSessions, id,
                                                            res.status, res.stored)
        /\ launch' = [launch EXCEPT ![p].pc = "returned", ![p].outcome = outcome,
                                    ![p].result = res.result]
  /\ UNCHANGED <<trackedRepos, trackedPaths, fsVars, nonReview>>

\* the caller has taken the LaunchResult
LaunchDone(p) ==
  /\ launch[p].pc = "returned"
  /\ launch' = [launch EXCEPT ![p] = IdleLaunch]
  /\ UNCHANGED <<legacyVars, fsVars, nonReview>>

\* scout review --skip: skipReview inside withWatchLock
SkipReview(path) ==
  /\ ~isWatchLocked
  /\ LET id == GetReviewSessionByPath(reviewSessions, path)
     IN reviewSessions' = IF id = NoSessionId THEN reviewSessions
                          ELSE MarkReviewSessionComplete(reviewSessions, id, "skipped",
                                                         NoExitCode)
  /\ UNCHANGED <<trackedRepos, trackedPaths, fsVars, reviewVars, nonReview>>

ReviewNext ==
  \/ \E name \in RepoNames, headReadable \in BOOLEAN, baseline \in RemoteHeads,
        paths \in LegacyPathSets : TrackRepo(name, headReadable, baseline, paths)
  \/ \E t \in trackedRepos, out \in FetchOutcomes : FetchRepo(t.id, out)
  \/ \E repo \in RepoNames, k \in SessionKinds, env \in SessionBuildEnvs :
       RunSession(repo, k, env)
  \/ \E p \in ReviewProc :
       \/ \E path \in KnownPaths, claudeAvailable \in BOOLEAN :
            LaunchStart(p, path, claudeAvailable)
       \/ \E outcome \in ExecaOutcomes, earlyReject \in BOOLEAN :
            LaunchExit(p, outcome, earlyReject)
       \/ LaunchDone(p)
  \/ \E path \in KnownPaths : SkipReview(path)

SpecReview == Init /\ [][ReviewNext]_vars

\* ------------------------------------------- runWatchOnce: auto-review
\* launchReview from call to return: what it leaves in review_sessions,
\* whether the reviewer subprocess was started, and the LaunchResult
LaunchReview(rs, f, path, claudeAvailable, outcome, earlyReject) ==
  LET entries == IF path \in DOMAIN f THEN f[path] ELSE {}
      validation == ValidateSession(entries)
      id == GetReviewSessionByPath(rs, path)
      res == IF ExecaRejects(outcome, earlyReject) THEN LaunchRejected(outcome)
             ELSE LaunchResolved(outcome)
  IN IF validation # "valid"
       THEN [reviewSessions |-> rs, started |-> FALSE,
             result |-> [exitCode |-> 1, success |-> FALSE, error |-> validation]]
     ELSE IF ~claudeAvailable
       THEN [reviewSessions |-> rs, started |-> FALSE,
             result |-> [exitCode |-> 1, success |-> FALSE,
                         error |-> "claude CLI not found"]]
     ELSE [reviewSessions |->
             IF id = NoSessionId THEN rs
             ELSE MarkReviewSessionComplete(MarkReviewSessionRunning(rs, id), id,
                                            res.status, res.stored),
           started |-> TRUE, result |-> res.result]

\* the options runWatchRunOnce passes to launchReview
AutoReviewOptions == [interactive |-> FALSE, timeout |-> "watch.reviewTimeoutMs"]

\* onSessionCreated: launchReview on the new session; its result is dropped
RunOnceReview(p) ==
  /\ run[p].pc = "review"
  /\ \E claudeAvailable \in BOOLEAN, outcome \in ExecaOutcomes, earlyReject \in BOOLEAN :
       LET res == LaunchReview(reviewSessions, fs, run[p].session.sessionPath,
                               claudeAvailable, outcome, earlyReject)
       IN /\ reviewSessions' = res.reviewSessions
          /\ run' = [run EXCEPT ![p].pc = "loop", ![p].idx = @ + 1,
                                ![p].reviewOptions = AutoReviewOptions,
                                ![p].log = IF res.started
                                             THEN @ \o <<"launchReview", "claude">>
                                             ELSE Append(@, "launchReview")]
  /\ UNCHANGED <<storeVars, fsVars, lockVars, trackedRepos, trackedPaths, reviewVars,
                 chunkVars, discVars, callVars, cloneVars>>

\* runWatchOnce has returned or thrown; runWatchRunOnce closes the db
RunOnceEnd(p) ==
  /\ run[p].pc \in {"done", "thrown"}
  /\ run' = [run EXCEPT ![p] = IdleRun]
  /\ UNCHANGED <<storeVars, fsVars, nonWatch>>

WatchNext ==
  \E p \in WatchProc :
    \/ \E name \in RepoNames, kind \in Kinds, paths \in PathLists :
         RunWatchAdd(p, name, kind, paths)
    \/ \E sinceLast \in BOOLEAN, autoReview \in BOOLEAN :
         RunOnceBegin(p, sinceLast, autoReview)
    \/ RunOnceNextEntry(p)
    \/ RunOnceSeed(p)
    \/ RunOnceFetch(p)
    \/ RunOnceCreateSession(p)
    \/ RunOnceStore(p)
    \/ RunOnceReview(p)
    \/ RunOnceEnd(p)

SpecWatch == Init /\ [][WatchNext]_vars

\* ------------------------------------------- V2 store: remove and delete
\* removeTrackedV2: DELETE FROM tracked WHERE repo_id = ? AND target_kind = ?
RemoveTrackedV2(ts, rs, fullName, kind) ==
  LET m == {r \in rs : r.full_name = fullName}
  IN IF m = {} THEN ts
     ELSE {t \in ts : ~(t.repo_id = (CHOOSE r \in m : TRUE).id /\ t.target_kind = kind)}

\* watch remove: removeTrackedV2 on a fresh connection; the command holds no
\* lock. Removals and deletions are explored after the runs of process p:
\* once it has issued one it starts no further watch add or run_once.
RunWatchRemove(p, name, kind) ==
  /\ run[p].pc \in {"idle", "done", "exited"}
  /\ tracked' = RemoveTrackedV2(tracked, repos, name, kind)
  /\ run' = [run EXCEPT ![p].pc = "exited"]
  /\ UNCHANGED <<repos, snapshots, changes, sessions, fsVars, nonWatch>>

DeleteRepoRowNoCascade(rs, ts, snaps, chs, ss, id) ==
  [repos |-> {r \in rs : r.id # id}, tracked |-> ts, snapshots |-> snaps,
   changes |-> chs, sessions |-> ss]

\* DELETE FROM repos WHERE id = ? under the schema, on a getDb connection
\* (PRAGMA foreign_keys = ON): tracked, snapshots and changes reference
\* repos(id) ON DELETE CASCADE, sessions reference changes(id) ON DELETE CASCADE
DeleteRepoRow(rs, ts, snaps, chs, ss, id) ==
  LET gone == {c.id : c \in {x \in chs : x.repo_id = id}}
  IN [repos |-> {r \in rs : r.id # id},
      tracked |-> {t \in ts : t.repo_id # id},
      snapshots |-> {n \in snaps : n.repo_id # id},
      changes |-> {c \in chs : c.repo_id # id},
      sessions |-> {x \in ss : x.change_id \notin gone}]

\* process p deletes a Repo row while no runWatchOnce is between its
\* statements (no command of the program issues the statement; the schema
\* defines what it does)
DeleteRepo(p, id) ==
  /\ \A q \in WatchProc : run[q].pc \in {"idle", "done", "exited"}
  /\ \E r \in repos : r.id = id
  /\ LET res == DeleteRepoRow(repos, tracked, snapshots, changes, sessions, id)
     IN /\ repos' = res.repos
        /\ tracked' = res.tracked
        /\ snapshots' = res.snapshots
        /\ changes' = res.changes
        /\ sessions' = res.sessions
  /\ run' = [run EXCEPT ![p].pc = "exited"]
  /\ UNCHANGED <<fsVars, nonWatch>>

StoreNext ==
  \/ WatchNext
  \/ \E p \in WatchProc, name \in RepoNames, kind \in Kinds : RunWatchRemove(p, name, kind)
  \/ \E p \in WatchProc, r \in repos : DeleteRepo(p, r.id)

SpecStore == Init /\ [][StoreNext]_vars

\* ------------------------------------- review launcher on any directory
\* the entries validateSession looks for in a session directory
SessionArtifacts == {"REVIEW_INSTRUCTIONS.md", "review_context.json", "repo", "OUTPUT",
                     "diff.patch", "chunks"}

\* the status values of a review_sessions row
Statuses == {"pending", "running", "success", "failure", "skipped"}

\* the session directory the review command is pointed at
GivenPath == SessionPath("o/a", "cli", <<"a", 1>>, <<"b", 1>>, 1)

\* a review_sessions row for GivenPath in the given status
GivenSession(status) ==
  [id |-> 1, repo_id |-> 1, session_path |-> GivenPath, old_sha |-> <<"a", 1>>,
   new_sha |-> <<"b", 1>>, target_kind |-> "cli", status |-> status,
   exit_code |-> IF status = "success" THEN 0 ELSE IF status = "failure" THEN 1
                 ELSE NoExitCode]

\* the review command is given a directory holding any subset of the
\* artifacts, tracked by a row in any status or by none
LaunchInit ==
  /\ LockInit /\ StoreInit /\ WatchInit /\ ReviewInit /\ ChunkInit /\ DiscInit /\ CallInit
  /\ CloneInit
  /\ today = 1
  /\ trackedRepos = {[id |-> 1, repo |-> "o/a", baseline_sha |-> <<"a", 1>>,
                      last_sha |-> <<"b", 1>>]}
  /\ trackedPaths = {}
  /\ \E entries \in SUBSET SessionArtifacts :
       /\ fs = (GivenPath :> entries)
       /\ worktrees = IF "repo" \in entries THEN {GivenPath} ELSE {}
  /\ \E rows \in {{}} \cup {{GivenSession(st)} : st \in Statuses} :
       reviewSessions = rows

LaunchNext ==
  \/ \E p \in ReviewProc :
       \/ \E path \in KnownPaths, claudeAvailable \in BOOLEAN :
            LaunchStart(p, path, claudeAvailable)
       \/ \E outcome \in ExecaOutcomes, earlyReject \in BOOLEAN :
            LaunchExit(p, outcome, earlyReject)
       \/ LaunchDone(p)
  \/ \E path \in KnownPaths : SkipReview(path)

SpecLaunch == LaunchInit /\ [][LaunchNext]_vars

\* ------------------------------------------------------------- chunkDiff
\* bounds on the patches, token budgets and file limits given to chunkDiff
MaxLines == 4
MaxTokenBudget == 10
MaxFileLimit == 2

\* a patch is the sequence of its lines (patch.split('\n')); a line is a
\* "diff --git a/<file> b/<file>" header or any other line, with its length
DiffFiles == {"f", "gg", "hh"}
HeaderLen(file) == IF file = "f" THEN 18 ELSE 20
BodyLens == {0, 3}
PatchLines ==
  {[hdr |-> TRUE, file |-> f, len |-> HeaderLen(f)] : f \in DiffFiles}
    \cup {[hdr |-> FALSE, file |-> "", len |-> n] : n \in BodyLens}

\* git diff output that is not empty: it starts with a file header and
\* has one section per changed file
Patches ==
  {ls \in UNION {[1..n -> PatchLines] : n \in 1..MaxLines} :
     /\ ls[1].hdr
     /\ \A i, j \in DOMAIN ls : (ls[i].hdr /\ ls[j].hdr /\ i # j) => ls[i].file # ls[j].file}

RECURSIVE SumLen(_)
SumLen(lines) == IF lines = <<>> THEN 0 ELSE Head(lines).len + SumLen(Tail(lines))

\* text.length of lines.join('\n')
TextLen(lines) == IF lines = <<>> THEN 0 ELSE SumLen(lines) + Len(lines) - 1

\* estimateTokens: Math.ceil(text.length / 4)
EstimateTokens(chars) == (chars + 3) \div 4

RECURSIVE ParseLines(_, _, _)
\* the loop of parseDiffSections; cur.content = <<>> is currentSection = null
ParseLines(lines, sections, cur) ==
  LET saved == IF cur.content # <<>> THEN Append(sections, cur) ELSE sections
  IN IF lines = <<>> THEN saved
     ELSE LET line == Head(lines)
          IN IF line.hdr
               THEN ParseLines(Tail(lines), saved,
                               [file |-> line.file, content |-> <<line>>])
             ELSE IF cur.content # <<>>
               THEN ParseLines(Tail(lines), sections,
                               [cur EXCEPT !.content = Append(@, line)])
             ELSE ParseLines(Tail(lines), sections, cur)

\* parseDiffSections: one section per "diff --git" line, lines before the
\* first one are dropped
ParseDiffSections(patch) == ParseLines(patch, <<>>, [file |-> "", content |-> <<>>])

\* extractFiles: the file of every "diff --git" line, in order
ExtractFiles(patch) ==
  LET sections == ParseDiffSections(patch)
  IN [i \in 1..Len(sections) |-> sections[i].file]

RECURSIVE JoinSectionsFirstOnly(_)
JoinSectionsFirstOnly(contents) == IF contents = <<>> THEN <<>> ELSE Head(contents)

RECURSIVE JoinSections(_)
\* c.content.join('\n'): the lines of the sections, one after the other
JoinSections(contents) ==
  IF contents = <<>> THEN <<>> ELSE Head(contents) \o JoinSections(Tail(contents))

\* { content: [], files: [], tokens: 0 }
EmptyChunk == [content |-> <<>>, files |-> <<>>, tokens |-> 0]

RECURSIVE PackSections(_, _, _, _, _)
\* the packing loop of chunkDiff and the push of the final chunk
PackSections(sections, chunks, cur, maxTokens, maxFilesPerChunk) ==
  LET flushed == IF cur.content # <<>> THEN Append(chunks, cur) ELSE chunks
  IN IF sections = <<>> THEN flushed
     ELSE LET section == Head(sections)
              sectionTokens == EstimateTokens(TextLen(section.content))
              wouldExceedFileLimit == Len(cur.files) >= maxFilesPerChunk
              wouldExceedTokenLimit == cur.tokens + sectionTokens > maxTokens
              startNew == wouldExceedTokenLimit \/ wouldExceedFileLimit
              base == IF startNew THEN EmptyChunk ELSE cur
          IN IF sectionTokens > maxTokens
               THEN PackSections(Tail(sections),
                      Append(flushed, [content |-> <<section.content>>,
                                       files |-> <<section.file>>,
                                       tokens |-> sectionTokens]),
                      EmptyChunk, maxTokens, maxFilesPerChunk)
             ELSE PackSections(Tail(sections),
                    IF startNew THEN flushed ELSE chunks,
                    [content |-> Append(base.content, section.content),
                     files |-> Append(base.files, section.file),
                     tokens |-> base.tokens + sectionTokens],
                    maxTokens, maxFilesPerChunk)

\* chunkDiff: the ChunkResult for a patch
ChunkDiff(patch, maxTokens, maxFilesPerChunk) ==
  LET totalTokens == EstimateTokens(TextLen(patch))
      files == ExtractFiles(patch)
      sections == ParseDiffSections(patch)
      Single(fs1) == [chunks |-> <<[index |-> 1, total |-> 1, content |-> patch,
                                    files |-> fs1, tokens |-> totalTokens]>>,
                      totalTokens |-> totalTokens, wasChunked |-> FALSE]
      packed == PackSections(sections, <<>>, EmptyChunk, maxTokens, maxFilesPerChunk)
      total == Len(packed)
  IN IF totalTokens <= maxTokens /\ Len(files) <= maxFilesPerChunk THEN Single(files)
     ELSE IF Len(sections) = 0 THEN Single(<<>>)
     ELSE [chunks |-> [i \in 1..total |->
                         [index |-> i, total |-> total,
                          content |-> JoinSections(packed[i].content),
                          files |-> packed[i].files, tokens |-> packed[i].tokens]],
           totalTokens |-> totalTokens, wasChunked |-> total > 1]

\* a caller runs chunkDiff(patch, maxTokens, maxFilesPerChunk)
ChunkDiffCall(patch, maxTokens, maxFilesPerChunk) ==
  /\ chunk.pc = "idle"
  /\ chunk' = [pc |-> "returned", patch |-> patch, maxTokens |-> maxTokens,
               maxFilesPerChunk |-> maxFilesPerChunk,
               result |-> ChunkDiff(patch, maxTokens, maxFilesPerChunk)]
  /\ UNCHANGED <<lockVars, storeVars, fsVars, watchVars, legacyVars, reviewVars,
                 discVars, callVars, cloneVars>>

\* the caller has written the chunks out
ChunkDone ==
  /\ chunk.pc = "returned"
  /\ chunk' = IdleChunk
  /\ UNCHANGED <<lockVars, storeVars, fsVars, watchVars, legacyVars, reviewVars,
                 discVars, callVars, cloneVars>>

ChunkNext ==
  \/ \E patch \in Patches, maxTokens \in 1..MaxTokenBudget,
        maxFilesPerChunk \in 1..MaxFileLimit :
       ChunkDiffCall(patch, maxTokens, maxFilesPerChunk)
  \/ ChunkDone

SpecChunk == Init /\ [][ChunkNext]_vars

\* ---------------------------------------------------- discover: lanes
\* bounds on the wall clock (hours), the configured cache TTL (hours) and
\* caching.maxPagesPerLane
MaxClock == 3
MaxTtlHours == 2
MaxPagesPerLane == 2

\* rateLimit.backoffBaseMs and rateLimit.backoffMaxMs (defaults)
BackoffBaseMs == 750
BackoffMaxMs == 15000

\* the lanes buildSearchLanes returns, by name; what the remote holds for a
\* lane page at the time of a request
Lanes == <<"l1", "l2">>
RemoteVersions == {1, 2}

\* the answers of octokit.search.repos: a page of items (full: 30 items), a
\* 403, or any other error
PageResponses ==
  {[kind |-> "ok", version |-> v, full |-> f] : v \in RemoteVersions, f \in BOOLEAN}
    \cup {[kind |-> k, version |-> 0, full |-> FALSE] : k \in {"403", "error"}}

\* const cacheKey = `search:${fullQuery}`
CacheKey(lane) == <<"search:", lane>>

IsValidAlways(entry, now) == TRUE

\* isValid: now - entryTime < ttlMs
IsValid(entry, now) == now - entry.timestamp < entry.ttlHours

\* getCached: the data of a readable, valid entry, otherwise null
GetCached(cache, key, now) ==
  IF key \in DOMAIN cache /\ IsValid(cache[key], now)
    THEN [hit |-> TRUE, data |-> cache[key].data]
    ELSE [hit |-> FALSE, data |-> NoItems]

\* setCached: the entry file is written with the current time
SetCached(cache, key, data, ttlHours, now) ==
  [k \in DOMAIN cache \cup {key} |->
     IF k = key THEN [timestamp |-> now, ttlHours |-> ttlHours, data |-> data]
     ELSE cache[k]]

\* the delay before a search request once queries have been executed
RateDelay(queriesExecuted) ==
  LET d == BackoffBaseMs * 2 ^ (queriesExecuted \div 10)
  IN IF d < BackoffMaxMs THEN d ELSE BackoffMaxMs

\* allCandidates.push for every item of the lane
ProcessItems(all, lane, items) ==
  all \o [i \in 1..Len(items) |-> [laneName |-> lane, item |-> items[i]]]

\* runDiscover up to the lane loop: config loaded, lanes built
DiscoverBegin(ttlHours) ==
  /\ disc.pc = "idle"
  /\ disc' = [IdleDisc EXCEPT !.pc = "lane", !.idx = 1, !.ttlHours = ttlHours]
  /\ UNCHANGED <<apiCache, clock>>
  /\ UNCHANGED <<lockVars, storeVars, fsVars, watchVars, legacyVars, reviewVars,
                 chunkVars, callVars, cloneVars>>

\* for (const lane of lanes): getCached; a hit is used as the lane's items
DiscoverLane ==
  /\ disc.pc = "lane"
  /\ IF disc.idx > Len(Lanes)
       THEN disc' = [disc EXCEPT !.pc = "rank"]
       ELSE LET lane == Lanes[disc.idx]
                key == CacheKey(lane)
                cached == GetCached(apiCache, key, clock)
            IN IF cached.hit
                 THEN disc' = [disc EXCEPT !.items = cached.data, !.lookup = "hit",
                                           !.calls = 0, !.sleeps = <<>>,
                                           !.lastResponse = "none",
                                           !.allCandidates =
                                              ProcessItems(@, lane, cached.data),
                                           !.idx = @ + 1]
                 ELSE disc' = [disc EXCEPT !.items = NoItems, !.page = 1,
                                           !.lookup = IF key \in DOMAIN apiCache
                                                        THEN "expired" ELSE "absent",
                                           !.calls = 0, !.sleeps = <<>>,
                                           !.lastResponse = "none",
                                           !.pc = "page"]
  /\ UNCHANGED <<apiCache, clock>>
  /\ UNCHANGED <<lockVars, storeVars, fsVars, watchVars, legacyVars, reviewVars,
                 chunkVars, callVars, cloneVars>>

\* one iteration of the page loop: the rate-limit sleep, the request, and
\* the catch block
DiscoverPage(resp) ==
  /\ disc.pc = "page"
  /\ LET slept == IF disc.queriesExecuted > 0
                    THEN Append(disc.sleeps, RateDelay(disc.queriesExecuted))
                    ELSE disc.sleeps
     IN IF resp.kind = "ok"
          THEN disc' = [disc EXCEPT
                          !.sleeps = slept, !.calls = @ + 1, !.lastResponse = "ok",
                          !.queriesExecuted = @ + 1,
                          !.items = Append(@, resp.version),
                          !.page = @ + 1,
                          !.pc = IF ~resp.full \/ disc.page + 1 > MaxPagesPerLane
                                   THEN "store" ELSE "page"]
        ELSE IF resp.kind = "403"
          THEN disc' = [disc EXCEPT
                          !.sleeps = Append(slept, BackoffMaxMs), !.calls = @ + 1,
                          !.lastResponse = "403", !.pc = "store"]
        ELSE disc' = [disc EXCEPT
                        !.sleeps = slept, !.calls = @ + 1, !.lastResponse = "error",
                        !.pc = "store"]
  /\ UNCHANGED <<apiCache, clock>>
  /\ UNCHANGED <<lockVars, storeVars, fsVars, watchVars, legacyVars, reviewVars,
                 chunkVars, callVars, cloneVars>>

\* after the page loop: setCached, then the lane's items are processed
DiscoverStore ==
  /\ disc.pc = "store"
  /\ LET lane == Lanes[disc.idx]
     IN /\ apiCache' = SetCached(apiCache, CacheKey(lane), disc.items, disc.ttlHours,
                                 clock)
        /\ disc' = [disc EXCEPT !.allCandidates = ProcessItems(@, lane, disc.items),
                                !.idx = @ + 1, !.pc = "lane"]
  /\ UNCHANGED clock
  /\ UNCHANGED <<lockVars, storeVars, fsVars, watchVars, legacyVars, reviewVars,
                 chunkVars, callVars, cloneVars>>

\* the rest of runDiscover: dedup, score, sort, write the candidates file
DiscoverEnd ==
  /\ disc.pc = "rank"
  /\ disc' = IdleDisc
  /\ UNCHANGED <<apiCache, clock>>
  /\ UNCHANGED <<lockVars, storeVars, fsVars, watchVars, legacyVars, reviewVars,
                 chunkVars, callVars, cloneVars>>

\* an hour passes
Tick ==
  /\ clock < MaxClock
  /\ clock' = clock + 1
  /\ UNCHANGED <<apiCache, disc>>
  /\ UNCHANGED <<lockVars, storeVars, fsVars, watchVars, legacyVars, reviewVars,
                 chunkVars, callVars, cloneVars>>

DiscoverNext ==
  \/ \E ttlHours \in 1..MaxTtlHours : DiscoverBegin(ttlHours)
  \/ DiscoverLane
  \/ \E resp \in PageResponses : DiscoverPage(resp)
  \/ DiscoverStore
  \/ DiscoverEnd
  \/ Tick

SpecDiscover == Init /\ [][DiscoverNext]_vars

\* ------------------------------------------- discover: dedup and ranking
\* bounds on the raw candidates of a run and on discovery.maxCandidatesTier1
MaxRawCandidates == 3
MaxTier1Cap == 2

\* what the remote reports for the repositories the lanes can return:
\* stars + forks + 1 as a power of ten, days since the last push, license
CandidateRepos == {"o/a", "o/b", "o/c", "o/d"}
RepoInfo(repo) ==
  CASE repo = "o/a" -> [activityLog10 |-> 1, daysSincePush |-> 45, licenseAllowed |-> TRUE]
    [] repo = "o/b" -> [activityLog10 |-> 1, daysSincePush |-> 45, licenseAllowed |-> TRUE]
    [] repo = "o/c" -> [activityLog10 |-> 2, daysSincePush |-> 0, licenseAllowed |-> TRUE]
    [] OTHER        -> [activityLog10 |-> 2, daysSincePush |-> 0, licenseAllowed |-> FALSE]

\* allCandidates: one element per item of a lane, in the order the lanes
\* ran and returned their items; a lane returns a repository once
RawCandidates ==
  {cs \in UNION {[1..n -> [repo : CandidateRepos, laneName : {"l1", "l2"}]] :
                   n \in 1..MaxRawCandidates} :
     \A i, j \in DOMAIN cs : i # j => cs[i] # cs[j]}

\* discovery.recencyWindowDays and the scoring weights, in hundredths
RecencyWindowDays == 90
WRecency == 55
WActivity == 25
WLanes == 20
LaneHitCap == 3

RECURSIVE DeduplicateCandidates(_, _)
\* deduplicateCandidates: the Map in insertion order, lane hits merged
DeduplicateCandidates(cands, byRepo) ==
  IF cands = <<>> THEN byRepo
  ELSE LET c == Head(cands)
           at == {i \in DOMAIN byRepo : byRepo[i].repo = c.repo}
       IN IF at # {}
            THEN LET i == CHOOSE j \in at : TRUE
                     hits == byRepo[i].laneHits
                     merged == IF \E h \in DOMAIN hits : hits[h] = c.laneName
                                 THEN hits ELSE Append(hits, c.laneName)
                 IN DeduplicateCandidates(Tail(cands),
                                          [byRepo EXCEPT ![i].laneHits = merged])
            ELSE DeduplicateCandidates(Tail(cands),
                   Append(byRepo, [repo |-> c.repo, laneHits |-> <<c.laneName>>]))

\* computeTier1Score in units of 1/(100 * 2 * 10 * 3 * RecencyWindowDays):
\* wRecency * (1 - days / window) + wActivity * log10(...) / 10
\*   + wLanes * min(hits, 3) / 3, every term already within [0, 1]
ComputeTier1Score(repo, laneHitsCount) ==
  LET info == RepoInfo(repo)
      hits == IF laneHitsCount < LaneHitCap THEN laneHitsCount ELSE LaneHitCap
  IN WRecency * (RecencyWindowDays - info.daysSincePush) * 60
       + WActivity * info.activityLog10 * 6 * RecencyWindowDays
       + WLanes * hits * 20 * RecencyWindowDays

RECURSIVE InsertByScore(_, _)
\* the place of c in a list sorted by (a, b) => b.tier1Score - a.tier1Score:
\* Array.prototype.sort is stable, c comes after the elements already placed
\* whose score is not lower
InsertByScore(sorted, c) ==
  IF sorted = <<>> THEN <<c>>
  ELSE IF Head(sorted).tier1Score >= c.tier1Score
         THEN <<Head(sorted)>> \o InsertByScore(Tail(sorted), c)
       ELSE <<c>> \o sorted

RECURSIVE SortByScore(_, _)
\* scored.sort(...): the elements placed one by one in their input order
SortByScore(scored, sorted) ==
  IF scored = <<>> THEN sorted
  ELSE SortByScore(Tail(scored), InsertByScore(sorted, Head(scored)))

\* runDiscover from deduplicateCandidates to topCandidates
RankCandidates(allCandidates, maxCandidatesTier1) ==
  LET deduped == DeduplicateCandidates(allCandidates, <<>>)
      kept == SelectSeq(deduped, LAMBDA c : RepoInfo(c.repo).licenseAllowed)
      scored == [i \in 1..Len(kept) |->
                   [repo |-> kept[i].repo, laneHits |-> kept[i].laneHits,
                    tier1Score |-> ComputeTier1Score(kept[i].repo,
                                                     Len(kept[i].laneHits))]]
      sorted == SortByScore(scored, <<>>)
  IN SubSeq(sorted, 1, IF Len(sorted) < maxCandidatesTier1 THEN Len(sorted)
                        ELSE maxCandidatesTier1)

\* the run ranks the candidates its lanes produced
RankCall(allCandidates, maxCandidatesTier1) ==
  /\ call.pc = "idle"
  /\ call' = [pc |-> "returned", fn |-> "rankCandidates",
              args |-> [allCandidates |-> allCandidates,
                        maxCandidatesTier1 |-> maxCandidatesTier1],
              result |-> RankCandidates(allCandidates, maxCandidatesTier1)]
  /\ UNCHANGED <<lockVars, storeVars, fsVars, watchVars, legacyVars, reviewVars,
                 chunkVars, discVars, cloneVars>>

\* the caller has used the result
CallDone ==
  /\ call.pc = "returned"
  /\ call' = IdleCall
  /\ UNCHANGED <<lockVars, storeVars, fsVars, watchVars, legacyVars, reviewVars,
                 chunkVars, discVars, cloneVars>>

RankNext ==
  \/ \E cs \in RawCandidates, cap \in 1..MaxTier1Cap : RankCall(cs, cap)
  \/ CallDone

SpecRank == Init /\ [][RankNext]_vars

\* ------------------------------------------------------------ clone batch
\* bound on the candidates of candidates.tier1.json
MaxCloneCandidates == 3

\* candidate.repo values: two well-formed and one that does not split into
\* owner and repo
CloneRepos == {"o/a", "o/b", "bad"}
ValidRepoFormat(repo) == repo # "bad"

\* the candidates file: each repository once, with its Tier-1 score
CloneCandidates ==
  {cs \in UNION {[1..n -> [repo : CloneRepos, tier1Score : {1, 2}]] :
                   n \in 1..MaxCloneCandidates} :
     \A i, j \in DOMAIN cs : i # j => cs[i].repo # cs[j].repo}

\* createManifest
CreateManifest(requested) == [requested |-> requested, cloned |-> 0, entries |-> <<>>]

\* addEntry that does not refresh the count
AddEntryStaleCount(manifest, entry) ==
  [manifest EXCEPT !.entries = Append(@, entry)]

\* addEntry
AddEntry(manifest, entry) ==
  [manifest EXCEPT !.entries = Append(manifest.entries, entry),
                   !.cloned = Len(manifest.entries) + 1]

\* runClone up to the loop: the candidates sorted by score, the first
\* cloneBudget of them kept, the manifest created
CloneBegin(candidates, cloneBudget) ==
  /\ cloneRun.pc = "idle"
  /\ LET sorted == SortByScore(candidates, <<>>)
         toClone == SubSeq(sorted, 1, IF Len(sorted) < cloneBudget THEN Len(sorted)
                                       ELSE cloneBudget)
     IN cloneRun' = [IdleClone EXCEPT !.pc = "loop", !.toClone = toClone, !.idx = 1,
                                      !.manifest = CreateManifest(Len(toClone))]
  /\ UNCHANGED <<lockVars, storeVars, fsVars, watchVars, legacyVars, reviewVars,
                 chunkVars, discVars, callVars>>

\* one iteration of the loop: ok is whether ensureCacheDir and shallowClone
\* returned (cloned or cached) or one of them threw
CloneStep(ok) ==
  /\ cloneRun.pc = "loop"
  /\ cloneRun.idx <= Len(cloneRun.toClone)
  /\ LET candidate == cloneRun.toClone[cloneRun.idx]
         entry == [repo |-> candidate.repo, tier1Score |-> candidate.tier1Score]
     IN cloneRun' =
          IF ~ValidRepoFormat(candidate.repo)
            THEN [cloneRun EXCEPT !.idx = @ + 1]
          ELSE IF ok
            THEN [cloneRun EXCEPT !.idx = @ + 1,
                                  !.manifest = AddEntry(cloneRun.manifest, entry)]
          ELSE [cloneRun EXCEPT !.idx = @ + 1,
                                !.failed = @ \cup {candidate.repo}]
  /\ UNCHANGED <<lockVars, storeVars, fsVars, watchVars, legacyVars, reviewVars,
                 chunkVars, discVars, callVars>>

\* saveManifest after the loop
CloneSave ==
  /\ cloneRun.pc = "loop"
  /\ cloneRun.idx > Len(cloneRun.toClone)
  /\ cloneRun' = [cloneRun EXCEPT !.pc = "done", !.saved = cloneRun.manifest]
  /\ UNCHANGED <<lockVars, storeVars, fsVars, watchVars, legacyVars, reviewVars,
                 chunkVars, discVars, callVars>>

\* the process ends
CloneEnd ==
  /\ cloneRun.pc = "done"
  /\ cloneRun' = IdleClone
  /\ UNCHANGED <<lockVars, storeVars, fsVars, watchVars, legacyVars, reviewVars,
                 chunkVars, discVars, callVars>>

CloneNext ==
  \/ \E cs \in CloneCandidates, budget \in 1..MaxCloneCandidates : CloneBegin(cs, budget)
  \/ \E ok \in BOOLEAN : CloneStep(ok)
  \/ CloneSave
  \/ CloneEnd

SpecClone == Init /\ [][CloneNext]_vars

\* ------------------------------------------------ configuration layers
\* bound on the length of an environment variable's text
MaxEnvLen == 3

\* the characters of an environment variable's text
EnvChars == {"1", "5", "a", " "}
Digits == {"1", "5"}
DigitValue(ch) == IF ch = "1" THEN 1 ELSE 5

\* process.env[name]: undefined, or a text
EnvValues ==
  {[defined |-> FALSE, text |-> <<>>]} \cup
  {[defined |-> TRUE, text |-> t] : t \in UNION {[1..n -> EnvChars] : n \in 0..MaxEnvLen}}

\* the value a configuration file gives to the key, when it has it
LayerValues == {[set |-> FALSE, value |-> 0], [set |-> TRUE, value |-> 7]}

\* the schema's default of the key (discovery.cloneBudget)
DefaultCloneBudget == 5

RECURSIVE SkipWhitespace(_)
SkipWhitespace(text) ==
  IF text # <<>> /\ Head(text) = " " THEN SkipWhitespace(Tail(text)) ELSE text

RECURSIVE ParseDigits(_, _)
\* the value of the longest prefix of digits, after the digits already read
ParseDigits(text, acc) ==
  IF text # <<>> /\ Head(text) \in Digits
    THEN ParseDigits(Tail(text), acc * 10 + DigitValue(Head(text)))
  ELSE acc

\* parseInt(text, 10): leading whitespace skipped, then the longest prefix
\* of digits; NaN when there is no digit there
ParseInt(text) ==
  LET rest == SkipWhitespace(text)
  IN IF rest # <<>> /\ Head(rest) \in Digits
       THEN [nan |-> FALSE, value |-> ParseDigits(rest, 0)]
     ELSE [nan |-> TRUE, value |-> 0]

\* getEnvConfig for one numeric key: the layer the environment contributes
GetEnvConfig(env) ==
  IF env.defined /\ ~ParseInt(env.text).nan
    THEN [set |-> TRUE, value |-> ParseInt(env.text).value]
  ELSE [set |-> FALSE, value |-> 0]

\* deepMerge of the layers of one key followed by the schema's default
DeepMerge(globalConfig, projectConfig, envConfig) ==
  IF envConfig.set THEN envConfig.value
  ELSE IF projectConfig.set THEN projectConfig.value
  ELSE IF globalConfig.set THEN globalConfig.value
  ELSE DefaultCloneBudget

\* loadConfig, for one numeric key
LoadConfig(globalConfig, projectConfig, env) ==
  DeepMerge(globalConfig, projectConfig, GetEnvConfig(env))

LoadConfigCall(globalConfig, projectConfig, env) ==
  /\ call.pc = "idle"
  /\ call' = [pc |-> "returned", fn |-> "loadConfig",
              args |-> [globalConfig |-> globalConfig, projectConfig |-> projectConfig,
                        env |-> env],
              result |-> LoadConfig(globalConfig, projectConfig, env)]
  /\ UNCHANGED <<lockVars, storeVars, fsVars, watchVars, legacyVars, reviewVars,
                 chunkVars, discVars, cloneVars>>

ConfigNext ==
  \/ \E g \in LayerValues, pr \in LayerValues, env \in EnvValues : LoadConfigCall(g, pr, env)
  \/ CallDone

SpecConfig == Init /\ [][ConfigNext]_vars

\* ------------------------------------------------------------ inferTargets
\* the detectors in the order inferTargets applies them, each with the
\* weights of its signals in thousandths
Detectors ==
  << [kind |-> "mcp-server", weights |-> <<400, 300, 200, 200>>],
     [kind |-> "cli",        weights |-> <<400, 300, 100>>],
     [kind |-> "skill",      weights |-> <<500, 300, 300>>],
     [kind |-> "hook",       weights |-> <<400, 400, 200>>],
     [kind |-> "plugin",     weights |-> <<300, 300, 200>>],
     [kind |-> "library",    weights |-> <<200, 200, 100>>] >>

\* bound on the detectors that find a signal in one project
MaxFiredDetectors == 3

\* what a project can show: for each detector the signals that fire
SignalSets(d) == SUBSET (DOMAIN Detectors[d].weights)
FiredSignals ==
  {f \in SignalSets(1) \X SignalSets(2) \X SignalSets(3) \X SignalSets(4)
            \X SignalSets(5) \X SignalSets(6) :
     Cardinality({d \in DOMAIN f : f[d] # {}}) <= MaxFiredDetectors}

RECURSIVE SumWeights(_, _)
SumWeights(weights, fired) ==
  IF fired = {} THEN 0
  ELSE LET i == CHOOSE j \in fired : TRUE
       IN weights[i] + SumWeights(weights, fired \ {i})

\* roundConfidence: Math.round(n * 100) / 100, from thousandths to
\* hundredths (the floating-point sum is within 1e-15 of the decimal sum)
RoundConfidence(thousandths) == (thousandths + 5) \div 10

\* the threshold of inferTargets, in hundredths
MinConfidence == 20

\* one detector: null (no signal) or its target
Detect(d, fired) ==
  IF fired = {} THEN [target |-> FALSE, kind |-> Detectors[d].kind, confidence |-> 0]
  ELSE LET sum == SumWeights(Detectors[d].weights, fired)
       IN [target |-> TRUE, kind |-> Detectors[d].kind,
           confidence |-> RoundConfidence(IF sum < 1000 THEN sum ELSE 1000)]

RECURSIVE InsertByConfidence(_, _)
\* the place of t under (a, b) => b.confidence - a.confidence, stable
InsertByConfidence(sorted, t) ==
  IF sorted = <<>> THEN <<t>>
  ELSE IF Head(sorted).confidence >= t.confidence
         THEN <<Head(sorted)>> \o InsertByConfidence(Tail(sorted), t)
       ELSE <<t>> \o sorted

RECURSIVE SortByConfidence(_, _)
SortByConfidence(targets, sorted) ==
  IF targets = <<>> THEN sorted
  ELSE SortByConfidence(Tail(targets), InsertByConfidence(sorted, Head(targets)))

RECURSIVE CollectTargets(_, _)
\* the loop over the detectors, from detector d on
CollectTargets(d, fired) ==
  IF d > Len(Detectors) THEN <<>>
  ELSE LET t == Detect(d, fired[d])
       IN (IF t.target /\ t.confidence > MinConfidence
             THEN <<[kind |-> t.kind, confidence |-> t.confidence]>> ELSE <<>>)
          \o CollectTargets(d + 1, fired)

InferTargets(fired) == SortByConfidence(CollectTargets(1, fired), <<>>)

InferTargetsCall(fired) ==
  /\ call.pc = "idle"
  /\ call' = [pc |-> "returned", fn |-> "inferTargets", args |-> [fired |-> fired],
              result |-> InferTargets(fired)]
  /\ UNCHANGED <<lockVars, storeVars, fsVars, watchVars, legacyVars, reviewVars,
                 chunkVars, discVars, cloneVars>>

InferNext ==
  \/ \E f \in FiredSignals : InferTargetsCall(f)
  \/ CallDone

SpecInfer == Init /\ [][InferNext]_vars

\* ------------------------------------------------------------ scout review
\* a flag of the review command: given as true, given as false, or absent
FlagValues == {"true", "false", "undefined"}

\* ReviewFlags: whether --session is given, and --run, --skip, --list
ReviewFlagSets == [session : BOOLEAN, run : FlagValues, skip : FlagValues,
                   list : FlagValues]

\* what the session directory holds: every artifact, or nothing
ReviewDirs == {SessionArtifacts, {}}

\* the review_sessions table: no row, or the row of the directory
ReviewTables == {{}} \cup {{GivenSession(st)} : st \in Statuses}

\* flags.run !== false || (!flags.run && !flags.skip)
ShouldRun(flags) ==
  flags.run # "false" \/ (flags.run # "true" /\ flags.skip # "true")

\* runReview from call to return with the lock free: the branch it takes,
\* whether it reports an error, whether the reviewer was started, and the
\* review_sessions table it leaves
RunReview(flags, rs, entries, claudeAvailable, outcome, earlyReject) ==
  LET f == (GivenPath :> entries)
      id == GetReviewSessionByPath(rs, GivenPath)
      launched == LaunchReview(rs, f, GivenPath, claudeAvailable, outcome, earlyReject)
      Quiet(branch, error) == [branch |-> branch, error |-> error, started |-> FALSE,
                               reviewSessions |-> rs]
  IN IF flags.list = "true" THEN Quiet("list", FALSE)
     ELSE IF ~flags.session THEN Quiet("usage", TRUE)
     ELSE IF flags.skip = "true"
       THEN [branch |-> "skip", error |-> FALSE, started |-> FALSE,
             reviewSessions |->
               IF id = NoSessionId THEN rs
               ELSE MarkReviewSessionComplete(rs, id, "skipped", NoExitCode)]
     ELSE IF ShouldRun(flags)
       THEN IF ~claudeAvailable THEN Quiet("run", TRUE)
            ELSE IF ValidateSession(entries) # "valid" THEN Quiet("run", TRUE)
            ELSE [branch |-> "run", error |-> ~launched.result.success,
                  started |-> launched.started,
                  reviewSessions |-> launched.reviewSessions]
     ELSE Quiet("none", FALSE)

RunReviewCall(flags, rs, entries, claudeAvailable, outcome, earlyReject) ==
  /\ call.pc = "idle"
  /\ call' = [pc |-> "returned", fn |-> "runReview",
              args |-> [flags |-> flags, reviewSessions |-> rs, entries |-> entries,
                        claudeAvailable |-> claudeAvailable, outcome |-> outcome,
                        earlyReject |-> earlyReject],
              result |-> RunReview(flags, rs, entries, claudeAvailable, outcome,
                                   earlyReject)]
  /\ UNCHANGED <<lockVars, storeVars, fsVars, watchVars, legacyVars, reviewVars,
                 chunkVars, discVars, cloneVars>>

ReviewCmdNext ==
  \/ \E flags \in ReviewFlagSets, rs \in ReviewTables, entries \in ReviewDirs,
        claudeAvailable \in BOOLEAN, outcome \in ExecaOutcomes, earlyReject \in BOOLEAN :
       RunReviewCall(flags, rs, entries, claudeAvailable, outcome, earlyReject)
  \/ CallDone

SpecReviewCmd == Init /\ [][ReviewCmdNext]_vars

\* ------------------------------------------- concurrent run_once processes
\* bounds on the run_once processes started side by side and on the days
\* the session paths can be dated with
NumRacers == 2
MaxDay == 2
RaceProc == 1..NumRacers

\* the head the remote of o/a points at while the processes run
RacedHead == <<"b", 1>>

\* the store after watch add o/a --kind cli and the run that seeded its first
\* snapshot: one repo, one tracked entry, one snapshot, nothing else
RaceInit ==
  /\ LockInit /\ FsInit /\ LegacyInit /\ ReviewInit /\ ChunkInit /\ DiscInit
  /\ CallInit /\ CloneInit
  /\ run = [p \in RaceProc |-> IdleRun]
  /\ LET r1 == InsertRepoV2({}, "o/a", NormalizeGitUrl("o/a"), 0)
         r2 == UpsertTrackedV2({}, r1.id, "cli", <<>>, TRUE, r1.lastInsertRowid)
     IN /\ repos = r1.rows
        /\ tracked = r2.rows
        /\ snapshots = InsertSnapshot({}, r1.id, <<"a", 1>>)
  /\ changes = {}
  /\ sessions = {}

\* new Date() in generateSessionPath: the date changes while processes run
Midnight ==
  /\ today < MaxDay
  /\ today' = today + 1
  /\ UNCHANGED <<fs, worktrees, storeVars, watchVars, nonWatch>>

\* no lock and no scheduler orders the processes: any of them takes its
\* next step; fetchHead resolves to the raced head or throws
RaceNext ==
  \/ \E p \in RaceProc :
       \/ RunOnceBegin(p, TRUE, FALSE)
       \/ RunOnceNextEntry(p)
       \/ RunOnceFetch(p) /\ run'[p].newSha \in {NoSha, RacedHead}
       \/ RunOnceCreateSession(p)
       \/ RunOnceStore(p)
       \/ RunOnceEnd(p)
  \/ Midnight

SpecRace == RaceInit /\ [][RaceNext]_vars

\* ------------------------------------ V2 upserts on one open connection
\* sqlite3_last_insert_rowid of the cached connection: 0 until a statement
\* of the connection has inserted a row
ConnLastRowid == IF call.pc = "idle" THEN 0 ELSE call.lastInsertRowid

\* getDb returns the cached dbInstance until closeDb
ConnUsable ==
  \/ call.pc = "idle"
  \/ call.pc = "returned" /\ call.fn \in {"insertRepoV2", "upsertTrackedV2"}

\* a caller of the store helpers calls insertRepoV2
InsertRepoV2Call(fullName) ==
  /\ ConnUsable
  /\ LET res == InsertRepoV2(repos, fullName, NormalizeGitUrl(fullName), ConnLastRowid)
     IN /\ repos' = res.rows
        /\ call' = [pc |-> "returned", fn |-> "insertRepoV2",
                    args |-> [fullName |-> fullName, repoId |-> 0, targetKind |-> ""],
                    result |-> res.id, lastInsertRowid |-> res.lastInsertRowid]
  /\ UNCHANGED <<tracked, snapshots, changes, sessions, lockVars, fsVars, watchVars,
                 legacyVars, reviewVars, chunkVars, discVars, cloneVars>>

\* a caller of the store helpers calls upsertTrackedV2 for a repo id
UpsertTrackedV2Call(repoId, kind, paths) ==
  /\ ConnUsable
  /\ LET res == UpsertTrackedV2(tracked, repoId, kind, paths, TRUE, ConnLastRowid)
     IN /\ Cardinality(res.rows) <= MaxTracked
        /\ tracked' = res.rows
        /\ call' = [pc |-> "returned", fn |-> "upsertTrackedV2",
                    args |-> [fullName |-> "", repoId |-> repoId, targetKind |-> kind],
                    result |-> res.id, lastInsertRowid |-> res.lastInsertRowid]
  /\ UNCHANGED <<repos, snapshots, changes, sessions, lockVars, fsVars, watchVars,
                 legacyVars, reviewVars, chunkVars, discVars, cloneVars>>

ConnNext ==
  \/ \E name \in RepoNames : InsertRepoV2Call(name)
  \/ \E r \in repos, kind \in Kinds, paths \in PathLists :
       UpsertTrackedV2Call(r.id, kind, paths)
  \/ CallDone

SpecConn == Init /\ [][ConnNext]_vars

\* ------------------------------------------- fetchRepo: the two attempts
\* what the local clone and the remote do during one fetchRepo: whether git
\* fetch succeeds, whether origin/HEAD resolves, the head of the remote, and
\* the commit FETCH_HEAD holds from an earlier fetch (NoSha: no such file)
FetchEnvs ==
  [fetchOk : BOOLEAN, originHeadOk : BOOLEAN, head : RemoteHeads,
   leftover : RemoteHeads \cup {NoSha}]

\* FETCH_HEAD when the fallback reads it: written by this fetch when it
\* succeeded, otherwise what an earlier fetch left
FetchHeadFile(env) == IF env.fetchOk THEN env.head ELSE env.leftover

\* fetchRepo for a tracked_repos row: the FetchResult, and whether
\* updateTrackedRepoSha ran
FetchRepoResult(t, env) ==
  LET previousSha == IF t.last_sha # NoSha THEN t.last_sha ELSE t.baseline_sha
      Resolved(sha) == [oldSha |-> previousSha, newSha |-> sha,
                        hasChanges |-> sha # previousSha, error |-> FALSE,
                        updated |-> TRUE]
  IN IF env.fetchOk /\ env.originHeadOk THEN Resolved(env.head)
     ELSE IF FetchHeadFile(env) # NoSha THEN Resolved(FetchHeadFile(env))
     ELSE [oldSha |-> previousSha, newSha |-> previousSha, hasChanges |-> FALSE,
           error |-> TRUE, updated |-> FALSE]

\* scout watch fetches one tracked repo
FetchRepoCall(t, env) ==
  /\ call.pc = "idle"
  /\ t \in trackedRepos
  /\ LET res == FetchRepoResult(t, env)
     IN /\ trackedRepos' = IF res.updated
                             THEN UpdateTrackedRepoSha(trackedRepos, t.id, res.newSha)
                             ELSE trackedRepos
        /\ call' = [pc |-> "returned", fn |-> "fetchRepo",
                    args |-> [tracked |-> t, env |-> env], result |-> res]
  /\ UNCHANGED <<trackedPaths, reviewSessions, lockVars, storeVars, fsVars, watchVars,
                 reviewVars, chunkVars, discVars, cloneVars>>

FetchNext ==
  \/ \E name \in RepoNames, headReadable \in BOOLEAN, baseline \in RemoteHeads,
        paths \in LegacyPathSets : TrackRepo(name, headReadable, baseline, paths)
  \/ \E t \in trackedRepos, env \in FetchEnvs : FetchRepoCall(t, env)
  \/ CallDone

SpecFetch == Init /\ [][FetchNext]_vars

\* C1: once withWatchLock(f) has returned or thrown, the calling process no
\* longer holds the lock, so isWatchLocked is false unless another process
\* holds it.
C1_LockReleasedOnEveryExit ==
  \A p \in Proc :
    lpc[p] \in {"returned", "thrown"} =>
      /\ lockHolder # p
      /\ (\A q \in Proc \ {p} : lockHolder # q) => ~isWatchLocked

\* a call whose fn threw has exited, and the lock is free
C1_Witness ==
  \E p \in Proc : lpc[p] = "thrown" /\ fnOutcome[p] = "throw" /\ ~isWatchLocked
\* C2: every step that writes the watch store (repos, tracked, snapshots,
\* changes, sessions) is taken while the advisory lock is held.
C2_StoreWritesHoldLock ==
  [][storeVars' # storeVars => isWatchLocked]_vars

\* C3: a failure while one tracked entry is processed does not end the
\* batch: runWatchOnce never stops on a throw while entries after the failing
\* one are still unprocessed.
C3_BatchSurvivesEntryFailure ==
  \A p \in WatchProc :
    run[p].pc = "thrown" => run[p].idx >= Len(run[p].rows)

\* C4: when run_once finishes storing a detected change (latest snapshot old,
\* resolved head new, new # old), the step adds exactly one Change row
\* (from old, to new, the entry's kind), exactly one Session row, pending,
\* referencing that Change and the session directory the builder returned,
\* and the repo's latest Snapshot is new.
C4_ChangeSessionSnapshotStored ==
  [][\A p \in WatchProc :
       (run[p].pc = "store" /\ run'[p].pc \in {"loop", "review"}) =>
         LET row == CurrentRow(p)
             newChanges == changes' \ changes
             newSessions == sessions' \ sessions
         IN /\ run[p].oldSha # run[p].newSha
            /\ changes \subseteq changes'
            /\ sessions \subseteq sessions'
            /\ Cardinality(newChanges) = 1
            /\ \A c \in newChanges :
                 /\ c.repo_id = row.repo_id
                 /\ c.from_sha = run[p].oldSha
                 /\ c.to_sha = run[p].newSha
                 /\ c.target_kind = row.target_kind
                 /\ Cardinality(newSessions) = 1
                 /\ \A x \in newSessions :
                      /\ x.status = "pending"
                      /\ x.change_id = c.id
                      /\ x.session_path = run[p].session.sessionPath
            /\ LatestSnapshot(snapshots', row.repo_id) = run[p].newSha]_vars

\* a run has just stored a change: its session row is pending and the latest
\* snapshot of the repo is the new head
C4_Witness ==
  \E p \in WatchProc :
    /\ run[p].pc = "loop"
    /\ run[p].log = <<"fetchHead", "createSession">>
    /\ run[p].idx > 1
    /\ \E c \in changes, x \in sessions :
         /\ c.from_sha = run[p].oldSha
         /\ c.to_sha = run[p].newSha
         /\ x.change_id = c.id
         /\ x.status = "pending"
         /\ x.session_path = run[p].session.sessionPath
         /\ LatestSnapshot(snapshots, c.repo_id) = run[p].newSha

\* C5: seeding. An entry whose repo has no Snapshot, processed with since-last
\* unset, completes with fetchHead called once and nothing else, exactly one
\* Snapshot added (the resolved head, for that repo), and no Change, no
\* Session and no session directory added.
C5_SeedingOnlySnapshots ==
  [][\A p \in WatchProc :
       (/\ run[p].pc \notin {"idle", "loop", "done", "thrown"}
        /\ run[p].oldSha = NoSha
        /\ ~run[p].sinceLast
        /\ run'[p].pc = "loop") =>
         LET newSnapshots == snapshots' \ snapshots
         IN /\ run'[p].log = <<"fetchHead">>
            /\ snapshots \subseteq snapshots'
            /\ Cardinality(newSnapshots) = 1
            /\ \A x \in newSnapshots :
                 /\ x.repo_id = CurrentRow(p).repo_id
                 /\ x.head_sha = run'[p].newSha
                 /\ x.head_sha \in RemoteHeads
            /\ changes' = changes
            /\ sessions' = sessions
            /\ fs' = fs /\ worktrees' = worktrees]_vars

\* an entry has just been seeded: one snapshot, nothing else
C5_Witness ==
  \E p \in WatchProc :
    /\ run[p].pc = "loop"
    /\ run[p].idx > 1
    /\ run[p].oldSha = NoSha
    /\ ~run[p].sinceLast
    /\ run[p].log = <<"fetchHead">>
    /\ \E x \in snapshots : x.head_sha = run[p].newSha
    /\ changes = {} /\ sessions = {}


\* C7: when a session build started by run_once fails after its working
\* tree has been created, the session directory is gone and the working tree
\* is detached when the error reaches runWatchOnce.
C7_FailedBuildTornDown ==
  [][\A p \in WatchProc :
       (/\ run[p].pc = "createSession"
        /\ run'[p].pc = "thrown"
        /\ run'[p].error \notin {"clone", "worktree"}) =>
         LET path == SessionPath(CurrentRow(p).full_name, CurrentRow(p).target_kind,
                                 run[p].oldSha, run[p].newSha, today)
         IN /\ path \notin DOMAIN fs'
            /\ path \notin worktrees']_vars

\* the Session rows stored for (repo, from, to, kind)
SessionsForKey(repoId, from, to, kind) ==
  {x \in sessions : \E c \in changes : /\ x.change_id = c.id
                                       /\ c.repo_id = repoId
                                       /\ c.from_sha = from
                                       /\ c.to_sha = to
                                       /\ c.target_kind = kind}

\* C8: when run_once invokes the builder for a (repo, from, to, kind) that
\* already has a Session row, the builder returns that session and the
\* session directories and working trees are left as they were.
C8_BuilderIdempotentPerKey ==
  [][\A p \in WatchProc :
       LET existing == SessionsForKey(CurrentRow(p).repo_id, run[p].oldSha,
                                      run[p].newSha, CurrentRow(p).target_kind)
       IN (/\ run[p].pc = "createSession"
           /\ run'[p].pc # "createSession"
           /\ existing # {}) =>
            /\ fs' = fs
            /\ worktrees' = worktrees
            /\ run'[p].pc = "store"
            /\ \E x \in existing : run'[p].session.sessionPath = x.session_path]_vars


\* position of a status on pending -> running -> {success, failure, skipped}
StatusRank(status) ==
  CASE status = "pending" -> 0
    [] status = "running" -> 1
    [] OTHER -> 2

\* C6: the status of a Session row only moves forward along
\* pending -> running -> {success, failure, skipped}: a step never changes the
\* status of a row to one that is not strictly later.
C6_StatusMovesForward ==
  [][\A r \in reviewSessions : \A q \in reviewSessions' :
       (q.id = r.id /\ q.status # r.status) =>
         StatusRank(q.status) > StatusRank(r.status)]_vars

\* C9: when launchReview returns after having marked a session running, the
\* session's status is success if the reviewer subprocess exited with code 0
\* and failure otherwise (so it is not running any more).
C9_TerminalStatusOnReturn ==
  [][\A p \in ReviewProc :
       (/\ launch[p].pc = "running"
        /\ launch'[p].pc = "returned"
        /\ launch[p].sessionId # NoSessionId) =>
         /\ \E r \in reviewSessions' : r.id = launch[p].sessionId
         /\ \A r \in reviewSessions' :
              r.id = launch[p].sessionId =>
                r.status = IF launch'[p].outcome = [kind |-> "exit", code |-> 0]
                             THEN "success" ELSE "failure"]_vars

\* launchReview has returned for a tracked session whose reviewer exited
\* with a non-zero code, and the session is in failure
C9_Witness ==
  \E p \in ReviewProc :
    /\ launch[p].pc = "returned"
    /\ launch[p].sessionId # NoSessionId
    /\ launch[p].outcome = [kind |-> "exit", code |-> 1]
    /\ \E r \in reviewSessions : r.id = launch[p].sessionId /\ r.status = "failure"

\* C10: when the reviewer subprocess exceeds its timeout, launchReview
\* returns exit code 124 with success = false.
C10_TimeoutReturns124 ==
  \A p \in ReviewProc :
    (launch[p].pc = "returned" /\ launch[p].outcome.kind = "timeout") =>
      /\ launch[p].result.exitCode = 124
      /\ ~launch[p].result.success


\* a directory with these entries lacks a required artifact
LacksArtifact(entries) ==
  \/ ~({"REVIEW_INSTRUCTIONS.md", "review_context.json", "repo", "OUTPUT"} \subseteq entries)
  \/ ("diff.patch" \notin entries /\ "chunks" \notin entries)

\* the error names an artifact that the directory does lack
ErrorNamesMissing(error, entries) ==
  \/ error = "missing REVIEW_INSTRUCTIONS.md" /\ "REVIEW_INSTRUCTIONS.md" \notin entries
  \/ error = "missing review_context.json" /\ "review_context.json" \notin entries
  \/ error = "missing repo" /\ "repo" \notin entries
  \/ error = "missing OUTPUT" /\ "OUTPUT" \notin entries
  \/ /\ error = "missing diff.patch or chunks"
     /\ "diff.patch" \notin entries
     /\ "chunks" \notin entries

\* C11: launchReview on a session directory that lacks a required artifact
\* returns at once (the reviewer subprocess is never started) with
\* success = false and an error naming a missing artifact, and leaves every
\* review_sessions row as it was.
C11_InvalidSessionRejected ==
  [][\A p \in ReviewProc :
       LET path == launch'[p].sessionPath
           entries == IF path \in DOMAIN fs THEN fs[path] ELSE {}
       IN (/\ launch[p].pc = "idle"
           /\ launch'[p].pc # "idle"
           /\ LacksArtifact(entries)) =>
            /\ launch'[p].pc = "returned"
            /\ ~launch'[p].result.success
            /\ ErrorNamesMissing(launch'[p].result.error, entries)
            /\ reviewSessions' = reviewSessions]_vars

\* launchReview has returned for a running session whose directory has every
\* file but neither diff.patch nor chunks/, naming them
C11_Witness ==
  \E p \in ReviewProc :
    /\ launch[p].pc = "returned"
    /\ launch[p].sessionPath \in DOMAIN fs
    /\ fs[launch[p].sessionPath] =
         {"REVIEW_INSTRUCTIONS.md", "review_context.json", "repo", "OUTPUT"}
    /\ launch[p].result.error = "missing diff.patch or chunks"
    /\ launch[p].outcome = NoOutcome
    /\ \E r \in reviewSessions : r.session_path = launch[p].sessionPath
                                 /\ r.status = "pending"


\* C12: with auto-review on, the Session row run_once stored for a change is
\* the row the launcher moves: once the launcher has started the reviewer for
\* that session and returned, the row is success or failure, never pending.
C12_StoredSessionLeavesPending ==
  [][\A p \in WatchProc :
       (run[p].pc = "review" /\ run'[p].pc = "loop"
          /\ "claude" \in {run'[p].log[i] : i \in DOMAIN run'[p].log})
       => \A x \in sessions' :
            x.session_path = run[p].session.sessionPath
            => x.status \in {"success", "failure"}]_vars

\* how many times the launcher was invoked for the entry being processed
LaunchCount(p) ==
  Cardinality({i \in DOMAIN run[p].log : run[p].log[i] = "launchReview"})

\* the Change, Session and Snapshot rows of the session run p built for row
SessionRowsStored(p, row) ==
  /\ \E c \in changes :
       /\ c.repo_id = row.repo_id
       /\ c.from_sha = run[p].oldSha /\ c.to_sha = run[p].newSha
       /\ \E x \in sessions : x.change_id = c.id
                               /\ x.session_path = run[p].session.sessionPath
  /\ \E n \in snapshots : n.repo_id = row.repo_id
                           /\ n.head_sha = run[p].newSha

\* C13: with auto-review on, the launcher is invoked exactly once for each
\* session created and stored in the run, with interactive=false and the
\* configured timeout, and only after the session's Change, Session and
\* Snapshot rows are stored; with auto-review off it is never invoked.
C13_LauncherOncePerSession ==
  /\ [](\A p \in WatchProc :
          /\ LaunchCount(p) <= 1
          /\ ~run[p].autoReview => LaunchCount(p) = 0
          /\ LaunchCount(p) = 1 => run[p].reviewOptions = AutoReviewOptions)
  /\ [][\A p \in WatchProc :
          /\ LaunchCount(p)' > LaunchCount(p)
               => /\ run[p].autoReview
                  /\ run[p].session # NoSession
                  /\ run[p].log = <<"fetchHead", "createSession">>
                  /\ SessionRowsStored(p, CurrentRow(p))
          /\ (run[p].pc = "store" /\ run'[p].pc \notin {"store", "thrown"}
                 /\ run[p].autoReview)
               => run'[p].pc = "review"
          /\ (run[p].pc = "review" /\ run'[p].pc # "review")
               => LaunchCount(p)' = 1]_vars

\* C13 witness: a run with auto-review has invoked the launcher on a stored session
C13_Witness ==
  \E p \in WatchProc :
    /\ run[p].autoReview /\ LaunchCount(p) = 1
    /\ run[p].reviewOptions = AutoReviewOptions
    /\ SessionRowsStored(p, run[p].rows[run[p].idx - 1])

\* C14: when the resolved remote head equals the head of the repo's latest
\* Snapshot, run_once appends no Snapshot, Change or Session row for that
\* entry and invokes neither the session builder nor the launcher.
C14_UnchangedHeadIsNoOp ==
  /\ [](\A p \in WatchProc :
          run[p].pc \in {"createSession", "store", "review"}
            => run[p].newSha # run[p].oldSha)
  /\ [][\A p \in WatchProc :
          (run[p].pc = "fetch" /\ run'[p].newSha = run[p].oldSha)
            => /\ UNCHANGED <<storeVars, fsVars, reviewSessions>>
               /\ run'[p].pc = "loop"
               /\ run'[p].idx = run[p].idx + 1
               /\ run'[p].log = <<"fetchHead">>]_vars

\* C14 witness: an entry with a latest snapshot was fetched and its head had
\* not moved
C14_Witness ==
  \E p \in WatchProc :
    /\ run[p].pc = "loop" /\ run[p].log = <<"fetchHead">>
    /\ run[p].oldSha # NoSha /\ run[p].newSha = run[p].oldSha

\* C15: scoped-drift rule. Whenever the diff scoped to the tracked paths is
\* empty and the unscoped diff over the same range is not, the session the
\* builder returns is built from the unscoped diff, carries drift = true and
\* its directory contains DRIFT.md.
C15_ScopedDriftRule ==
  \A p \in WatchProc :
    run[p].pc = "createSession" =>
      \A env \in BuildEnvs :
        LET input == [repoFullName |-> CurrentRow(p).full_name,
                      oldSha |-> run[p].oldSha, newSha |-> run[p].newSha,
                      targetKind |-> CurrentRow(p).target_kind,
                      trackedPaths |-> CurrentRow(p).paths]
            res == CreateWatchSession(fs, worktrees, today, input, env)
        IN (/\ input.trackedPaths # <<>>
            /\ env.diff.scopedEmpty /\ ~env.diff.overallEmpty
            /\ ~res.threw)
           => /\ res.diffUsed = "overall"
              /\ res.driftFlag
              /\ "DRIFT.md" \in res.fs[res.sessionPath]
              /\ {"diff.patch", "chunks"} \cap res.fs[res.sessionPath] # {}

\* C15 witness: run_once holds a session built for an entry with tracked
\* paths whose scoped diff was empty: drift is set and DRIFT.md is there
C15_Witness ==
  \E p \in WatchProc :
    /\ run[p].pc = "store"
    /\ CurrentRow(p).paths # <<>>
    /\ run[p].session.driftFlag
    /\ "DRIFT.md" \in fs[run[p].session.sessionPath]

\* the input createWatchSession gets for the entry run p is processing
BuilderInput(p) ==
  [repoFullName |-> CurrentRow(p).full_name,
   oldSha |-> run[p].oldSha, newSha |-> run[p].newSha,
   targetKind |-> CurrentRow(p).target_kind,
   trackedPaths |-> CurrentRow(p).paths]

\* the diff is empty once the scoped-drift check is over
DiffStillEmpty(paths, diff) ==
  IF paths # <<>> THEN diff.scopedEmpty /\ diff.overallEmpty ELSE diff.overallEmpty

C16_ChunksWithinBudget ==
  chunk.pc = "returned" =>
    \A i \in DOMAIN chunk.result.chunks :
      LET c == chunk.result.chunks[i]
          estimated == EstimateTokens(TextLen(c.content))
      IN \/ estimated <= chunk.maxTokens
         \/ Len(c.files) = 1 /\ estimated > chunk.maxTokens

\* the lines of chunks 1..n, one chunk after the other
RECURSIVE ChunksContent(_)
ChunksContent(chunks) ==
  IF chunks = <<>> THEN <<>> ELSE Head(chunks).content \o ChunksContent(Tail(chunks))

\* the files of the "diff --git" lines among the given lines, in order
HeaderFiles(lines) ==
  LET hs == SelectSeq(lines, LAMBDA l : l.hdr)
  IN [i \in 1..Len(hs) |-> hs[i].file]

\* C17: the chunks together are the input diff split at file boundaries:
\* chunks 1..N in order give back the input, every chunk starts at a file
\* header (no file is split), lists exactly the files it holds, and nothing
\* is lost or duplicated.
C17_ChunksPartitionDiff ==
  chunk.pc = "returned" =>
    LET cs == chunk.result.chunks
    IN /\ Len(cs) >= 1
       /\ ChunksContent(cs) = chunk.patch
       /\ \A i \in DOMAIN cs :
            /\ cs[i].index = i /\ cs[i].total = Len(cs)
            /\ cs[i].content # <<>> /\ cs[i].content[1].hdr
            /\ cs[i].files = HeaderFiles(cs[i].content)

\* C17 witness: a diff of several files came back split into several chunks
C17_Witness ==
  /\ chunk.pc = "returned"
  /\ Len(chunk.result.chunks) >= 2
  /\ Len(HeaderFiles(chunk.patch)) >= 3
  /\ \E i \in DOMAIN chunk.result.chunks : Len(chunk.result.chunks[i].files) >= 2

\* no two Repo rows share full_name, no two Tracked rows share
\* (repo_id, target_kind)
UniqueKeys(rs, ts) ==
  /\ \A a, b \in rs : a.full_name = b.full_name => a = b
  /\ \A a, b \in ts : (a.repo_id = b.repo_id /\ a.target_kind = b.target_kind) => a = b

\* C19: no sequence of store operations yields two Repo rows with the same
\* full_name or two Tracked rows with the same (repo_id, target_kind); adding
\* a key that already exists updates the existing row, it does not add one.
C19_UniqueRepoAndTracked ==
  /\ UniqueKeys(repos, tracked)
  /\ \A name \in RepoNames, last \in 0..NextRowid(repos) :
       LET res == InsertRepoV2(repos, name, NormalizeGitUrl(name), last)
       IN /\ UniqueKeys(res.rows, tracked)
          /\ (\E r \in repos : r.full_name = name)
               => /\ Cardinality(res.rows) = Cardinality(repos)
                  /\ {r.id : r \in res.rows} = {r.id : r \in repos}
  /\ \A r \in repos, kind \in Kinds, paths \in PathLists, enabled \in BOOLEAN,
        last \in 0..NextRowid(tracked) :
       LET res == UpsertTrackedV2(tracked, r.id, kind, paths, enabled, last)
       IN /\ UniqueKeys(repos, res.rows)
          /\ \E t \in res.rows :
               /\ t.repo_id = r.id /\ t.target_kind = kind
               /\ t.paths = paths /\ t.enabled = enabled
          /\ (\E t \in tracked : t.repo_id = r.id /\ t.target_kind = kind)
               => /\ Cardinality(res.rows) = Cardinality(tracked)
                  /\ {t.id : t \in res.rows} = {t.id : t \in tracked}

\* C19 witness: a repo was added for a second target kind and is still one
\* Repo row, with both Tracked rows attached to it
C19_Witness ==
  /\ Cardinality(repos) = 1
  /\ Cardinality(tracked) = 2
  /\ \A t \in tracked : \E r \in repos : t.repo_id = r.id

\* every Tracked, Snapshot and Change row references a Repo row, every
\* Session row a Change row
NoDanglingRows(rs, ts, snaps, chs, ss) ==
  LET ids == {r.id : r \in rs}
  IN /\ \A t \in ts : t.repo_id \in ids
     /\ \A n \in snaps : n.repo_id \in ids
     /\ \A c \in chs : c.repo_id \in ids
     /\ \A x \in ss : x.change_id \in {c.id : c \in chs}

\* C20: deleting a Repo row removes every Tracked, Snapshot, Change and
\* Session row belonging to it (Sessions through their Change), so no row
\* references a Repo or Change that no longer exists.
C20_DeleteRepoCascades ==
  /\ [](NoDanglingRows(repos, tracked, snapshots, changes, sessions))
  /\ [][\A r \in repos :
          r \notin repos'
            => LET gone == {c.id : c \in {x \in changes : x.repo_id = r.id}}
               IN /\ \A t \in tracked' : t.repo_id # r.id
                  /\ \A n \in snapshots' : n.repo_id # r.id
                  /\ \A c \in changes' : c.repo_id # r.id
                  /\ \A x \in sessions' : x.change_id \notin gone
                  /\ tracked' = {t \in tracked : t.repo_id # r.id}
                  /\ snapshots' = {n \in snapshots : n.repo_id # r.id}
                  /\ changes' = {c \in changes : c.repo_id # r.id}
                  /\ sessions' = {x \in sessions : x.change_id \notin gone}]_vars

\* C20 witness: the repo whose change, session and snapshot the last run
\* stored has been deleted and nothing of it is left in any table
C20_Witness ==
  \E p \in WatchProc :
    /\ run[p].pc = "exited"
    /\ run[p].session # NoSession
    /\ run[p].rows # <<>>
    /\ LET id == run[p].rows[Len(run[p].rows)].repo_id
       IN /\ \A r \in repos : r.id # id
          /\ \A t \in tracked : t.repo_id # id
          /\ \A n \in snapshots : n.repo_id # id
          /\ \A c \in changes : c.repo_id # id
          /\ sessions = {}

\* C21: the from-commit of every Change run_once issues is the head of the
\* Snapshot with the greatest id for that repo when the entry is processed,
\* however many older Snapshots the repo has.
C21_ChangeFromLatestSnapshot ==
  [][\A p \in WatchProc :
       /\ (run[p].pc = "loop" /\ run'[p].pc \in {"fetch", "fetchSeed"})
            => LET mine == {n \in snapshots : n.repo_id = CurrentRow(p).repo_id}
               IN IF mine = {} THEN run'[p].oldSha = NoSha
                  ELSE \E n \in mine : /\ \A m \in mine : m.id <= n.id
                                       /\ run'[p].oldSha = n.head_sha
       /\ run[p].pc = "store"
            => \A c \in changes' \ changes :
                 /\ c.repo_id = CurrentRow(p).repo_id
                 /\ c.from_sha = run[p].oldSha
                 /\ c.to_sha = run[p].newSha]_vars

\* C21 witness: a Change was issued from the newest of two Snapshots of its
\* repo whose heads differ
C21_Witness ==
  \E c \in changes, n1, n2, n3 \in snapshots :
    /\ n1.repo_id = c.repo_id /\ n2.repo_id = c.repo_id /\ n3.repo_id = c.repo_id
    /\ n1.id < n2.id /\ n2.id < n3.id
    /\ n1.head_sha # n2.head_sha
    /\ c.from_sha = n2.head_sha /\ c.to_sha = n3.head_sha

\* C22: acquiring the watch lock while another process holds it retries with
\* a bounded exponential backoff; when the lock is still held once the retry
\* budget is used up the call fails with LockBusy, surfaced to the caller.
\* It never blocks forever and the caller's function never runs without the lock.
C22_BoundedRetryThenLockBusy ==
  /\ [](\A p \in Proc :
          /\ attempts[p] <= LockRetries
          /\ lpc[p] = "inFn" => lockHolder = p
          /\ lpc[p] = "lockBusy" => (attempts[p] = LockRetries /\ fnOutcome[p] = "none"
                                      /\ lockHolder # p)
          /\ \A k \in 0..(attempts[p] - 1), r \in RandomTenths :
               /\ RetryTimeout(k, r) <= LockMaxTimeout
               /\ RetryTimeout(k, r) >= LockMinTimeout
               /\ RetryTimeout(k, 10) = IF LockMinTimeout * 2 ^ k < LockMaxTimeout
                                          THEN LockMinTimeout * 2 ^ k
                                          ELSE LockMaxTimeout)
  /\ [][\A p \in Proc :
          /\ (lpc[p] = "acquiring" /\ lpc'[p] = "lockBusy")
               => (lockHolder \notin {NoProc, p} /\ lockHolder' = lockHolder)
          /\ attempts'[p] > attempts[p]
               => (lockHolder \notin {NoProc, p} /\ attempts'[p] = attempts[p] + 1
                   /\ lpc'[p] = "acquiring")]_vars
  /\ \A p \in Proc : (lpc[p] = "acquiring") ~> (lpc[p] \in {"inFn", "lockBusy"})

\* C22 witness: a caller has used up its retries against a held lock and got
\* LockBusy while the other process still holds the lock
C22_Witness ==
  \E p, q \in Proc :
    /\ p # q
    /\ lpc[p] = "lockBusy" /\ attempts[p] = LockRetries
    /\ lockHolder = q /\ lpc[q] = "inFn"

\* C23: a cached lane response is served without a remote call only while
\* its age is below its TTL; once the TTL has elapsed the entry is a miss,
\* the lane is fetched from the remote again and the entry is replaced.
C23_CacheServedWithinTtl ==
  /\ [](disc.lookup = "hit" => disc.calls = 0)
  /\ [][/\ (disc.pc = "lane" /\ disc.idx <= Len(Lanes) /\ disc' # disc)
            => LET key == CacheKey(Lanes[disc.idx])
                   fresh == /\ key \in DOMAIN apiCache
                            /\ clock - apiCache[key].timestamp < apiCache[key].ttlHours
               IN IF fresh
                    THEN /\ disc'.lookup = "hit"
                         /\ disc'.items = apiCache[key].data
                         /\ disc'.calls = 0
                         /\ disc'.pc = "lane"
                         /\ apiCache' = apiCache
                    ELSE /\ disc'.pc = "page"
                         /\ disc'.lookup \in {"expired", "absent"}
                         /\ disc'.items = NoItems
        /\ (disc.pc = "store" /\ disc' # disc)
            => LET key == CacheKey(Lanes[disc.idx])
               IN /\ disc.calls >= 1
                  /\ key \in DOMAIN apiCache'
                  /\ apiCache'[key] = [timestamp |-> clock, ttlHours |-> disc.ttlHours,
                                       data |-> disc.items]]_vars

\* C23 witness: an entry whose TTL had elapsed was fetched again and replaced
\* by what the remote returned
C23_Witness ==
  /\ disc.pc = "lane" /\ disc.idx > 1
  /\ disc.lookup = "expired" /\ disc.calls >= 1 /\ disc.lastResponse = "ok"
  /\ apiCache[CacheKey(Lanes[disc.idx - 1])].timestamp = clock
  /\ apiCache[CacheKey(Lanes[disc.idx - 1])].data = disc.items

\* C24: on a 403-class remote error the engine waits with an exponential
\* backoff that never exceeds the configured maximum and then retries the
\* request; the lane's results are given up only once the backoff budget is
\* exhausted.
C24_RateLimitRetried ==
  [][(disc.pc = "page" /\ disc'.lastResponse = "403" /\ disc.lastResponse # "403")
       => /\ disc'.pc = "page"
          /\ disc'.page = disc.page]_vars

\* the repositories of a candidate list, in list order
RepoOrder(cands) == [i \in 1..Len(cands) |-> cands[i].repo]

\* the orders in which the same lane items can arrive
Reorderings(cands) ==
  {[i \in 1..Len(cands) |-> cands[f[i]]] : f \in Permutations(1..Len(cands))}

\* C25: the final Tier-1 list is ordered by score descending with ties broken
\* by repository identifier, so the list, and which candidates survive the
\* Tier-1 cap, does not depend on the order in which the lanes ran or
\* returned their items.
C25_RankingOrderIndependent ==
  (call.pc = "returned" /\ call.fn = "rankCandidates") =>
    /\ \A i, j \in DOMAIN call.result :
         i < j => call.result[i].tier1Score >= call.result[j].tier1Score
    /\ \A other \in Reorderings(call.args.allCandidates) :
         RepoOrder(RankCandidates(other, call.args.maxCandidatesTier1))
           = RepoOrder(call.result)

\* the repositories that have an entry in a manifest
ManifestRepos(manifest) == {manifest.entries[i].repo : i \in DOMAIN manifest.entries}

\* C26: when cloning one candidate fails the batch continues with the
\* remaining candidates, the failed repository has no entry in the manifest,
\* and the manifest's cloned count equals the number of its entries.
C26_CloneFailureIsolated ==
  /\ [](/\ cloneRun.manifest.cloned = Len(cloneRun.manifest.entries)
        /\ cloneRun.saved.cloned = Len(cloneRun.saved.entries)
        /\ cloneRun.failed \cap ManifestRepos(cloneRun.manifest) = {}
        /\ cloneRun.failed \cap ManifestRepos(cloneRun.saved) = {})
  /\ [][(cloneRun.pc = "loop" /\ cloneRun'.failed # cloneRun.failed) =>
          /\ cloneRun'.pc = "loop"
          /\ cloneRun'.idx = cloneRun.idx + 1
          /\ cloneRun'.manifest = cloneRun.manifest]_vars
  /\ [][(cloneRun.pc = "loop" /\ cloneRun'.pc = "done") =>
          /\ cloneRun.idx > Len(cloneRun.toClone)
          /\ cloneRun'.saved = cloneRun.manifest]_vars

\* a batch whose first candidate failed and whose second was cloned and saved
C26_Witness ==
  /\ cloneRun.pc = "done"
  /\ Len(cloneRun.toClone) >= 2
  /\ cloneRun.toClone[1].repo \in cloneRun.failed
  /\ cloneRun.toClone[2].repo \in ManifestRepos(cloneRun.saved)
  /\ cloneRun.saved.cloned = 1

\* a text that is a number in its entirety: digits alone, at least one
IsNumberText(text) == text # <<>> /\ \A i \in DOMAIN text : text[i] \in Digits

\* C27: a numeric environment override whose text is not in its entirety a
\* valid number (such as "15abc" or the empty string) is ignored, and the
\* value of the previous layer (project file, then global file, then
\* default) is used.
C27_MalformedOverrideIgnored ==
  (/\ call.pc = "returned" /\ call.fn = "loadConfig"
   /\ call.args.env.defined
   /\ ~IsNumberText(call.args.env.text)
   /\ \A i \in DOMAIN call.args.env.text : call.args.env.text[i] # " ") =>
    call.result = DeepMerge(call.args.globalConfig, call.args.projectConfig,
                            [set |-> FALSE, value |-> 0])

\* C28: inferTargets emits exactly the detected targets whose rounded
\* confidence is at least the minimum of 0.2 (a target at exactly 0.2 is
\* kept, anything lower is dropped), ordered by confidence descending.
C28_TargetsAtLeastMinimum ==
  (call.pc = "returned" /\ call.fn = "inferTargets") =>
    /\ {call.result[i] : i \in DOMAIN call.result}
         = {[kind |-> Detect(d, call.args.fired[d]).kind,
             confidence |-> Detect(d, call.args.fired[d]).confidence] :
              d \in {e \in DOMAIN Detectors :
                       /\ Detect(e, call.args.fired[e]).target
                       /\ Detect(e, call.args.fired[e]).confidence >= MinConfidence}}
    /\ \A i, j \in DOMAIN call.result :
         i < j => call.result[i].confidence >= call.result[j].confidence

\* C29: the review command treats --run and --skip as mutually exclusive:
\* when both are set it reports an error and neither launches the reviewer
\* nor marks the session skipped.
C29_RunAndSkipExclusive ==
  (/\ call.pc = "returned" /\ call.fn = "runReview"
   /\ call.args.flags.session /\ call.args.flags.list # "true"
   /\ call.args.flags.run = "true" /\ call.args.flags.skip = "true") =>
    /\ call.result.error
    /\ ~call.result.started
    /\ call.result.reviewSessions = call.args.reviewSessions

\* the Change rows stored for (repo, from, to, kind)
ChangesForKey(repoId, from, to, kind) ==
  {c \in changes : /\ c.repo_id = repoId /\ c.from_sha = from
                   /\ c.to_sha = to /\ c.target_kind = kind}

\* C30: when two run_once processes run concurrently against the same store
\* and observe the same head change, at most one Change row and one Session
\* row are issued for a given (repo, from, to, kind) and the new head is
\* appended as a Snapshot only once.
C30_ConcurrentRunsIssueOnce ==
  /\ \A c \in changes :
       /\ Cardinality(ChangesForKey(c.repo_id, c.from_sha, c.to_sha, c.target_kind)) <= 1
       /\ Cardinality(SessionsForKey(c.repo_id, c.from_sha, c.to_sha, c.target_kind)) <= 1
  /\ \A x \in snapshots :
       Cardinality({y \in snapshots : y.repo_id = x.repo_id /\ y.head_sha = x.head_sha}) <= 1

\* C31: for each detected change the Change row, its Session row and the new
\* Snapshot are stored all-or-nothing: whether run_once returns, throws, or
\* the builder fails partway, the store never holds a Change without its
\* Session, nor a Change whose to-commit has not been recorded as a Snapshot
\* of the repo.
C31_ChangeStoredAtomically ==
  \A c \in changes :
    /\ \E x \in sessions : x.change_id = c.id
    /\ \E sn \in snapshots : sn.repo_id = c.repo_id /\ sn.head_sha = c.to_sha

\* C32: when a repo has several enabled tracked entries and its head has
\* moved, one run_once issues a Change and a Session for every entry, each
\* from the Snapshot that was latest before the run: after the run has stored
\* the change of one entry, the next entry of the same repo is processed from
\* the same from-commit and goes on to the fetch.
C32_LaterEntriesSeeSameChange ==
  [][\A p \in WatchProc :
       (/\ run[p].pc = "loop"
        /\ run[p].idx \in 2..Len(run[p].rows)
        /\ run[p].session # NoSession
        /\ run[p].rows[run[p].idx].repo_id = run[p].rows[run[p].idx - 1].repo_id
        /\ run'[p] # run[p]) =>
         /\ run'[p].oldSha = run[p].oldSha
         /\ run'[p].pc = "fetch"]_vars

\* C33: run_once never invokes the session builder and never issues a Change
\* or Session for an entry whose repo has no Snapshot, whatever the
\* since-last flag: such an entry is skipped or seeded with the store's
\* changes and sessions and the session directories untouched, the builder
\* is only reached with a from-commit read from a Snapshot, and the
\* from-commit of every Change is the head of a Snapshot of its repo.
C33_NoSnapshotNoChange ==
  /\ [](\A p \in WatchProc :
          run[p].pc \in {"createSession", "store"} =>
            /\ run[p].oldSha # NoSha
            /\ \E sn \in snapshots : /\ sn.repo_id = CurrentRow(p).repo_id
                                     /\ sn.head_sha = run[p].oldSha)
  /\ [](\A c \in changes :
          /\ c.from_sha # NoSha
          /\ \E sn \in snapshots : sn.repo_id = c.repo_id /\ sn.head_sha = c.from_sha)
  /\ [][\A p \in WatchProc :
          (/\ run[p].pc = "loop"
           /\ run[p].idx <= Len(run[p].rows)
           /\ LatestSnapshot(snapshots, CurrentRow(p).repo_id) = NoSha
           /\ run'[p] # run[p]) =>
            /\ run'[p].pc = IF run[p].sinceLast THEN "loop" ELSE "fetchSeed"
            /\ run'[p].oldSha = NoSha]_vars
  /\ [][\A p \in WatchProc :
          (run[p].pc = "fetchSeed" /\ run'[p] # run[p]) =>
            /\ run'[p].pc \in {"loop", "thrown"}
            /\ changes' = changes /\ sessions' = sessions
            /\ fs' = fs /\ worktrees' = worktrees]_vars

\* an entry whose repo had no Snapshot has been seeded with the remote head:
\* the run moved on and no Change exists
C33_Witness ==
  \E p \in WatchProc :
    /\ run[p].pc = "loop"
    /\ run[p].idx >= 2
    /\ run[p].oldSha = NoSha
    /\ run[p].newSha # NoSha
    /\ \E sn \in snapshots : /\ sn.repo_id = run[p].rows[run[p].idx - 1].repo_id
                             /\ sn.head_sha = run[p].newSha
    /\ changes = {}

\* C34: the repo upsert returns the id of the Repo row whose full_name equals
\* the input, both when the row is inserted and when it already existed and
\* was updated, and the tracked upsert likewise returns the id of the
\* matching Tracked row, whatever was inserted earlier on the connection.
C34_UpsertReturnsMatchingId ==
  /\ (call.pc = "returned" /\ call.fn = "insertRepoV2") =>
       \E r \in repos : r.id = call.result /\ r.full_name = call.args.fullName
  /\ (call.pc = "returned" /\ call.fn = "upsertTrackedV2") =>
       \E t \in tracked : /\ t.id = call.result
                          /\ t.repo_id = call.args.repoId
                          /\ t.target_kind = call.args.targetKind

\* C35: a lane whose remote fetch was cut short by an error (rate limit or
\* any other) does not store its partial or empty result in the response
\* cache: once the lane is left, a lookup of its key is still a miss, so a
\* later run within the TTL queries the remote for that lane again.
C35_FailedLaneNotCached ==
  [][(/\ disc.pc = "store"
      /\ disc.lastResponse \in {"403", "error"}
      /\ disc' # disc) =>
       ~GetCached(apiCache', CacheKey(Lanes[disc.idx]), clock').hit]_vars

\* C36: a session build that fails, or that is repeated for a commit range
\* built earlier, never deletes or overwrites a session directory that an
\* existing Session row references: the builder step leaves every such
\* directory with the entries it had.
C36_ReferencedSessionDirKept ==
  [][\A p \in WatchProc :
       (run[p].pc = "createSession" /\ run'[p].pc # "createSession") =>
         \A x \in sessions :
           x.session_path \in DOMAIN fs =>
             /\ x.session_path \in DOMAIN fs'
             /\ fs'[x.session_path] = fs[x.session_path]]_vars

\* C37: if fetching a tracked repo from its remote fails, the stored
\* last-seen commit of that repo is left unchanged and the fetch result
\* carries the error and reports no change; a commit id left over from an
\* earlier fetch is never recorded as the new head.
C37_FailedFetchLeavesLastSha ==
  (/\ call.pc = "returned" /\ call.fn = "fetchRepo"
   /\ ~call.args.env.fetchOk) =>
    /\ call.args.tracked \in trackedRepos
    /\ call.result.error
    /\ ~call.result.hasChanges

====
